---- MODULE Spec2Model ----
(***************************************************************************)
(* A-Maze-ing: the maze generators (mazegen/dfs.py, mazegen/hak.py,        *)
(* mazegen_hak.py), the text codec (MazeGenerator.write, .save,            *)
(* PathFinder._load_maze) and the breadth-first pathfinder (pathfinder.py).*)
(*                                                                         *)
(* The package generators dfs() and hak() address cells as (x, y) with x   *)
(* the row and y the column (grid[x][y]); HaKMazeGenerator and PathFinder  *)
(* address cells as (x, y) with x the column and y the row (grid[y][x]).   *)
(* A grid is a sequence of rows, each a sequence of wall masks, so the     *)
(* Python grid[a][b] is grid[a + 1][b + 1] here.                           *)
(***************************************************************************)
EXTENDS Integers, Sequences, FiniteSets, TLC

\* ------------------------------------------------------------------ bounds
MaxW == 3
MaxH == 2
\* the largest coordinate written to a file by the codec runs
MaxCoord == 11
\* the seeds 0..MaxSeed of the seeded runs, and how many runs they make
MaxSeed == 3
MaxRuns == 2
\* the largest grid of the loop carving runs, and their seeds 0..MaxLoopSeed
LoopW == 6
LoopH == 5
MaxLoopSeed == 39
\* the longest row and the most rows of a hand-written maze file
FileW == 2
FileH == 2
\* the path lines one file may collect
MaxPaths == 2
\* open grids: up to OpenW columns by OpenH rows
OpenW == 3
OpenH == 3

\* the depth of recursion the interpreter allows: sys.getrecursionlimit(),
\* which the program never changes
RecursionLimit == 1000
\* a one-row grid longer than that
CorridorW == 1101

\* ------------------------------------------------------------ wall bitmasks
FULL == 15

NORTH == 1
EAST == 2
SOUTH == 4
WEST == 8

\* v & (1 << i) != 0
HasBit(v, i) == (v \div (2 ^ i)) % 2 = 1

\* v ^ (1 << i)
ToggleBit(v, i) == IF HasBit(v, i) THEN v - (2 ^ i) ELSE v + (2 ^ i)

\* v & ~(1 << i)
ClearBit(v, i) == IF HasBit(v, i) THEN v - (2 ^ i) ELSE v

\* Cell.has_wall: bool(walls & direction), direction a one-bit mask
has_wall(walls, direction) ==
    \E i \in 0..3 : direction = 2 ^ i /\ HasBit(walls, i)

\* Cell.remove_wall: walls & ~direction, direction a one-bit mask
remove_wall(walls, direction) ==
    IF has_wall(walls, direction) THEN walls - direction ELSE walls

\* HaKMazeGenerator._opposite
opposite(direction) ==
    IF direction = NORTH THEN SOUTH
    ELSE IF direction = SOUTH THEN NORTH
    ELSE IF direction = EAST THEN WEST
    ELSE EAST

\* dfs: neighbors / hak: DIRS, as (dx, dy) added to (row, column)
neighbors == << <<-1, 0>>, <<0, 1>>, <<1, 0>>, <<0, -1>> >>

DIRS == << <<-1, 0>>, <<0, 1>>, <<1, 0>>, <<0, -1>> >>

\* dfs: opposite_wall / hak: OPP, indexed by the wall index 0..3
opposite_wall == <<2, 3, 0, 1>>

OPP == <<2, 3, 0, 1>>

\* neighbors.index((dx, dy)), 0-based
IndexOf(d) == (CHOOSE k \in 1..4 : neighbors[k] = d) - 1

\* The cells of the "42" pattern, as (column, row) offsets from the centre
P42Cells ==
    { <<-3, -2>>, <<-1, -2>>, <<1, -2>>, <<2, -2>>, <<3, -2>>,
      <<-3, -1>>, <<-1, -1>>, <<3, -1>>,
      <<-3, 0>>, <<-2, 0>>, <<-1, 0>>, <<1, 0>>, <<2, 0>>, <<3, 0>>,
      <<-1, 1>>, <<1, 1>>,
      <<-1, 2>>, <<1, 2>>, <<2, 2>>, <<3, 2>> }

\* p42[r][c] for a maze of width w and height h
p42(w, h, r, c) ==
    IF <<c - (w \div 2), r - (h \div 2)>> \in P42Cells THEN 1 ELSE 0

\* [[15 for _ in range(w)] for _ in range(h)]
FullGrid(w, h) == [r \in 1..h |-> [c \in 1..w |-> FULL]]

\* An index pair a list of h rows of w cells accepts (no IndexError);
\* negative indices never arise: coordinates are validated non-negative.
InGrid(w, h, a, b) == 0 <= a /\ a < h /\ 0 <= b /\ b < w

Min(S) == CHOOSE m \in S : \A n \in S : m <= n

VARIABLES
    algorithm,   \* "dfs" | "hak": MazeGenerator._algorithm; "flat":
                 \* HaKMazeGenerator; "flatdfs": MazeGenerator of src/mazegen.py
    width, height, entry, exit, perfect,
    grid,        \* the wall masks
    stack,       \* dfs: the explicit stack
    visited,     \* the visited set (dfs, hak) / the cells with visited = True (flat)
    dir,         \* dfs: the shuffled direction list
    cur,         \* hak: (x, y) of the outer loop; flat: current cell
    file,        \* the output file: its lines, each a sequence of characters
    pf,          \* the PathFinder object: grid, width, height, entry, exit
    path,        \* what find_path returned
    view,        \* the Visualizer object: what read() loaded from the file
    seed,        \* the configured seed, or None
    rng,         \* the state of the global random generator
    run,         \* the number of the generation run on this configuration
    carved,      \* seeded runs: the walls opened so far by this run, in order
    iters,       \* the iterations of the generator's outer loop made so far
                 \* by this run: dfs's `while stack`, the kill/hunt rounds
    first,       \* seeded runs: the carved walls and the file of the first run
    pc           \* the position of the run

vars == <<algorithm, width, height, entry, exit, perfect, grid, stack,
          visited, dir, cur, file, pf, path, view, seed, rng, run, carved,
          iters, first, pc>>

\* the generator's own state / the file and the pathfinder's state
genvars == <<grid, stack, visited, dir, cur, rng, carved, iters>>

cfgvars == <<algorithm, width, height, entry, exit, perfect, seed>>

\* the bookkeeping of repeated runs
runvars == <<run, first>>

outvars == <<file, pf, path, view>>

Algorithms == {"dfs", "hak", "flat"}

\* --------------------------------------------------------------- the codec
None == "None"

\* a Visualizer that has read nothing
NoView ==
    [maze |-> << >>, start |-> None, end |-> None, path |-> << >>,
     error |-> "none"]

\* a PathFinder that was not constructed
NoPathFinder ==
    [grid |-> << >>, width |-> 0, height |-> 0, entry |-> None,
     exit |-> None, error |-> "none"]

Digits == <<"0", "1", "2", "3", "4", "5", "6", "7", "8", "9">>

HexDigits == Digits \o <<"A", "B", "C", "D", "E", "F">>

\* str(n)
RECURSIVE DecStr(_)
DecStr(n) ==
    IF n < 0 THEN <<"-">> \o DecStr(0 - n)
    ELSE IF n < 10 THEN <<Digits[n + 1]>>
    ELSE DecStr(n \div 10) \o <<Digits[(n % 10) + 1]>>

\* hex(v)[2:].upper() / format(v, 'X'), v >= 0
RECURSIVE HexStr(_)
HexStr(v) ==
    IF v < 16 THEN <<HexDigits[v + 1]>>
    ELSE HexStr(v \div 16) \o <<HexDigits[(v % 16) + 1]>>

\* "".join(f(v) for v in row)
RECURSIVE JoinHex(_)
JoinHex(row) ==
    IF row = << >> THEN << >> ELSE HexStr(Head(row)) \o JoinHex(Tail(row))

\* a writer that puts the coordinates as "Y, X"
WriteLinesSwapped(g, en, ex) ==
    [r \in 1..Len(g) |-> JoinHex(g[r])]
    \o << << >> >>
    \o << DecStr(en[2]) \o <<",", " ">> \o DecStr(en[1]) >>
    \o << DecStr(ex[2]) \o <<",", " ">> \o DecStr(ex[1]) >>

\* MazeGenerator.write (package) and MazeGenerator.save (flat dfs):
\* rows, blank line, "X, Y" lines
WriteLines(g, en, ex) ==
    [r \in 1..Len(g) |-> JoinHex(g[r])]
    \o << << >> >>
    \o (IF en = None THEN << >>
        ELSE << DecStr(en[1]) \o <<",", " ">> \o DecStr(en[2]) >>)
    \o (IF ex = None THEN << >>
        ELSE << DecStr(ex[1]) \o <<",", " ">> \o DecStr(ex[2]) >>)

\* MazeGenerator.save of src/mazegen.py: out += hex digit for i in
\* range(height), j in range(width); then "\n", "X, Y", "\n", "X, Y", "\n"
FlatSaveLines(g, w, h, en, ex) ==
    [i \in 1..h |-> [j \in 1..w |-> HexStr(g[i][j])[1]]]
    \o << << >> >>
    \o << DecStr(en[1]) \o <<",", " ">> \o DecStr(en[2]) >>
    \o << DecStr(ex[1]) \o <<",", " ">> \o DecStr(ex[2]) >>

\* HaKMazeGenerator.save: rows, blank line, "X,Y" lines
SaveLines(g, en, ex) ==
    [r \in 1..Len(g) |-> JoinHex(g[r])]
    \o << << >> >>
    \o << DecStr(en[1]) \o <<",">> \o DecStr(en[2]) >>
    \o << DecStr(ex[1]) \o <<",">> \o DecStr(ex[2]) >>

\* str.strip()
RECURSIVE Strip(_)
Strip(line) ==
    IF line = << >> THEN line
    ELSE IF Head(line) = " " THEN Strip(Tail(line))
    ELSE IF line[Len(line)] = " " THEN Strip(SubSeq(line, 1, Len(line) - 1))
    ELSE line

\* str.split(',')
RECURSIVE Split(_)
Split(line) ==
    IF \A k \in 1..Len(line) : line[k] # ","
    THEN <<line>>
    ELSE LET k == Min({j \in 1..Len(line) : line[j] = ","})
         IN <<SubSeq(line, 1, k - 1)>>
            \o Split(SubSeq(line, k + 1, Len(line)))

\* int(c, 16) of one character; -1: ValueError
HexVal(c) ==
    IF \E k \in 1..16 : HexDigits[k] = c
    THEN (CHOOSE k \in 1..16 : HexDigits[k] = c) - 1
    ELSE -1

IsDigit(c) == \E k \in 1..10 : Digits[k] = c

RECURSIVE DecVal(_)
DecVal(ds) ==
    IF ds = << >> THEN 0
    ELSE DecVal(SubSeq(ds, 1, Len(ds) - 1)) * 10
         + (CHOOSE k \in 1..10 : Digits[k] = ds[Len(ds)]) - 1

\* int(s) is defined on s
IsInt(s) ==
    LET body == IF s # << >> /\ Head(s) \in {"-", "+"} THEN Tail(s) ELSE s
    IN body # << >> /\ \A k \in 1..Len(body) : IsDigit(body[k])

\* int(s)
IntVal(s) ==
    IF Head(s) = "-" THEN 0 - DecVal(Tail(s))
    ELSE IF Head(s) = "+" THEN DecVal(Tail(s))
    ELSE DecVal(s)

\* a coordinate line: "ok" and the pair, or the exception raised
ParseCoord(line) ==
    LET parts == Split(Strip(line))
    IN IF ~IsInt(Strip(parts[1])) THEN [error |-> "ValueError"]
       ELSE IF Len(parts) < 2 THEN [error |-> "IndexError"]
       ELSE IF ~IsInt(Strip(parts[2])) THEN [error |-> "ValueError"]
       ELSE [error |-> "none",
             value |-> <<IntVal(Strip(parts[1])), IntVal(Strip(parts[2]))>>]

\* PathFinder.__init__ and _load_maze on the lines of the file
LoadMaze(lines) ==
    LET blanks == {k \in 1..Len(lines) : Strip(lines[k]) = << >>}
        nrows == IF blanks = {} THEN Len(lines) ELSE Min(blanks) - 1
        rows == [r \in 1..nrows |->
                    [c \in 1..Len(Strip(lines[r])) |->
                        HexVal(Strip(lines[r])[c])]]
        badrow == \E r \in 1..nrows : \E c \in 1..Len(rows[r]) :
                    rows[r][c] = -1
        e == nrows + 2
        hasEntry == e <= Len(lines)
        hasExit == e + 1 <= Len(lines)
        en == ParseCoord(lines[e])
        ex == ParseCoord(lines[e + 1])
        w == IF nrows > 0 THEN Len(rows[1]) ELSE 0
        base == [grid |-> rows, width |-> w, height |-> nrows,
                 entry |-> None, exit |-> None, error |-> "none"]
    IN IF badrow THEN [NoPathFinder EXCEPT !.error = "ValueError"]
       ELSE IF ~hasEntry THEN base
       ELSE IF en.error # "none" THEN [NoPathFinder EXCEPT !.error = en.error]
       ELSE IF ~hasExit THEN [base EXCEPT !.entry = en.value]
       ELSE IF ex.error # "none" THEN [NoPathFinder EXCEPT !.error = ex.error]
       ELSE [base EXCEPT !.entry = en.value, !.exit = ex.value]

\* ------------------------------------------------- the random generator
\* The global generator of the random module is a deterministic generator:
\* seed(n) puts it in a state fixed by n, and each draw is a function of the
\* state. It is modelled by a small congruential generator. Seeded from
\* system entropy (seed(None), or never seeded) its state is unknown and
\* every outcome of a draw is possible.
Entropy == [known |-> FALSE, x |-> 0]

\* the seed of a configuration without a SEED key (None), and the seed n
NoSeed == << >>
SeedOf(n) == <<n>>

\* the generator left in the state it is in
SeedKept(s) == rng

\* random.seed(s)
Seed(s) ==
    IF s = NoSeed THEN Entropy
    ELSE [known |-> TRUE, x |-> (s[1] * 17 + 5) % 101]

\* the state after one draw
Advance(r) ==
    IF r.known THEN [known |-> TRUE, x |-> (r.x * 37 + 11) % 101] ELSE r

\* randbelow(n) in state r: the possible <<outcome, next state>>
RandBelow(r, n) ==
    IF r.known THEN {<<Advance(r).x % n, Advance(r)>>}
    ELSE {<<k, r>> : k \in 0..(n - 1)}

\* x[i], x[j] = x[j], x[i] on 1-based positions
Swap(x, i, j) == [x EXCEPT ![i] = x[j], ![j] = x[i]]

\* random.shuffle(x) of a list of four in state r:
\* for i in reversed(range(1, 4)): j = randbelow(i + 1); swap x[i], x[j];
\* the possible <<shuffled list, next state>>
Shuffle(x, r) ==
    UNION { UNION { { <<Swap(Swap(Swap(x, 4, j3[1] + 1), 3, j2[1] + 1),
                            2, j1[1] + 1), j1[2]>> :
                      j1 \in RandBelow(j2[2], 2) } :
                    j2 \in RandBelow(j3[2], 3) } :
            j3 \in RandBelow(r, 4) }

\* what is kept of a run, before any run was made
NoRun == [carved |-> << >>, grid |-> << >>, file |-> << >>]

\* the log of carved walls, kept by seeded runs
Log(c, wall) == IF seed = NoSeed THEN c ELSE Append(c, wall)

\* ---------------------------------------------------- configuration loading
\* MazeGenerator.read / ConfigParser._validate: the accepted configurations
ValidConfig(w, h, en, ex) ==
    /\ w >= 1 /\ h >= 1
    /\ 0 <= en[1] /\ en[1] < w /\ 0 <= en[2] /\ en[2] < h
    /\ 0 <= ex[1] /\ ex[1] < w /\ 0 <= ex[2] /\ ex[2] < h
    /\ en # ex

Coords == (0..(MaxW - 1)) \X (0..(MaxH - 1))

Init ==
    /\ algorithm \in Algorithms
    /\ width \in 1..MaxW
    /\ height \in 1..MaxH
    /\ entry \in Coords
    /\ exit \in Coords
    /\ ValidConfig(width, height, entry, exit)
    /\ perfect \in BOOLEAN
    /\ grid = FullGrid(width, height)
    /\ stack = << >>
    /\ visited = {}
    /\ dir = neighbors
    /\ cur = <<0, 0>>
    /\ file = << >>
    /\ pf = NoPathFinder
    /\ path = None
    /\ view = NoView
    /\ seed = NoSeed
    /\ rng = IF algorithm = "flat" THEN Seed(seed) ELSE Entropy
    /\ run = 1
    /\ carved = << >>
    /\ iters = 0
    /\ first = NoRun
    /\ pc = "config"

\* ------------------------------------------------------------- dfs (package)
\* a carve that opens the wall on the side of (x, y) only
CarveOneSide(g, x, y, nx, ny, i, opp) ==
    [g EXCEPT ![x + 1][y + 1] = ClearBit(g[x + 1][y + 1], i)]

\* grid[x][y] &= ~(1 << i); grid[nx][ny] &= ~(1 << opposite_wall[i])
Carve(g, x, y, nx, ny, i, opp) ==
    LET g1 == [g EXCEPT ![x + 1][y + 1] = ClearBit(@, i)]
    IN [g1 EXCEPT ![nx + 1][ny + 1] = ClearBit(@, opp)]

\* generate() -> dfs(): seed, stack, visited, dir
dfs_start ==
    /\ pc = "config"
    /\ algorithm = "dfs"
    /\ rng' = Seed(seed)
    /\ stack' = <<entry>>
    /\ visited' = {entry}
    /\ dir' = neighbors
    /\ pc' = "dfs"
    /\ UNCHANGED <<cfgvars, outvars, runvars, grid, cur, carved>>
    /\ iters' = 0

\* a dfs that does not keep out of the pattern
DfsViableNoPattern(d, x, y, vis) ==
    { k \in 1..4 :
        LET nx == x + d[k][1]
            ny == y + d[k][2]
        IN /\ 0 <= nx /\ nx < height /\ 0 <= ny /\ ny < width
           /\ <<nx, ny>> \notin vis }

\* The (dx, dy) of d that dfs takes from (x, y): in bounds, outside the
\* pattern, not visited
DfsViable(d, x, y, vis) ==
    { k \in 1..4 :
        LET nx == x + d[k][1]
            ny == y + d[k][2]
        IN /\ 0 <= nx /\ nx < height /\ 0 <= ny /\ ny < width
           /\ p42(width, height, nx, ny) = 0
           /\ <<nx, ny>> \notin vis }

\* a pop that leaves the stack as it is
PopNothing(s) == s

\* stack.pop()
Pop(s) == SubSeq(s, 1, Len(s) - 1)

\* one iteration of `while stack`
dfs_loop ==
    /\ pc = "dfs"
    /\ stack # << >>
    /\ \E sh \in Shuffle(dir, rng) :
        LET d == sh[1]
            x == stack[Len(stack)][1]
            y == stack[Len(stack)][2]
            viable == DfsViable(d, x, y, visited)
        IN /\ dir' = d
           /\ rng' = sh[2]
           /\ IF viable = {}
              THEN /\ stack' = Pop(stack)
                   /\ pc' = IF Pop(stack) = << >> THEN "generated" ELSE "dfs"
                   /\ UNCHANGED <<visited, grid, carved>>
              ELSE LET k == Min(viable)
                       nx == x + d[k][1]
                       ny == y + d[k][2]
                       i == IndexOf(d[k])
                   IN /\ stack' = Append(stack, <<nx, ny>>)
                      /\ visited' = visited \cup {<<nx, ny>>}
                      /\ IF InGrid(width, height, x, y)
                         THEN /\ grid' = Carve(grid, x, y, nx, ny, i,
                                               opposite_wall[i + 1])
                              /\ carved' = Log(carved, <<x, y, nx, ny>>)
                              /\ pc' = "dfs"
                         ELSE /\ grid' = grid
                              /\ carved' = carved
                              /\ pc' = "error"
    /\ UNCHANGED <<cfgvars, outvars, runvars, cur>>
    /\ iters' = iters + 1

\* ------------------------------------------------------------- hak (package)
hak_start ==
    /\ pc = "config"
    /\ algorithm = "hak"
    /\ rng' = Seed(seed)
    /\ visited' = {entry}
    /\ cur' = entry
    /\ pc' = "kill"
    /\ UNCHANGED <<cfgvars, outvars, runvars, grid, stack, dir, carved>>
    /\ iters' = 0

\* every in-bounds neighbour of (x, y), visited or not
HakNeighborsAny(x, y, vis, want) ==
    LET all == [k \in 1..4 |-> <<x + DIRS[k][1], y + DIRS[k][2], k - 1>>]
        Keep(n) == /\ 0 <= n[1] /\ n[1] < height /\ 0 <= n[2] /\ n[2] < width
    IN SelectSeq(all, Keep)

\* the (nx, ny, i) of the in-bounds neighbours of (x, y) whose membership in
\* vis is `want`, in DIRS order
HakNeighbors(x, y, vis, want) ==
    LET all == [k \in 1..4 |-> <<x + DIRS[k][1], y + DIRS[k][2], k - 1>>]
        Keep(n) == /\ 0 <= n[1] /\ n[1] < height /\ 0 <= n[2] /\ n[2] < width
                   /\ (<<n[1], n[2]>> \in vis) = want
    IN SelectSeq(all, Keep)

\* one iteration of kill's `while True`
kill ==
    /\ pc = "kill"
    /\ LET x == cur[1]
           y == cur[2]
           nb == HakNeighbors(x, y, visited, FALSE)
       IN IF nb = << >>
          THEN /\ pc' = "hunt"
               /\ UNCHANGED <<grid, visited, cur, rng, carved>>
          ELSE \E ch \in RandBelow(rng, Len(nb)) :
                 LET c == ch[1] + 1
                 IN /\ rng' = ch[2]
                    /\ IF InGrid(width, height, x, y)
                       THEN /\ grid' = Carve(grid, x, y, nb[c][1], nb[c][2],
                                             nb[c][3], OPP[nb[c][3] + 1])
                            /\ carved' = Log(carved,
                                             <<x, y, nb[c][1], nb[c][2]>>)
                            /\ visited' = visited \cup {<<nb[c][1], nb[c][2]>>}
                            /\ cur' = <<nb[c][1], nb[c][2]>>
                            /\ pc' = "kill"
                       ELSE /\ pc' = "error"
                            /\ UNCHANGED <<grid, visited, cur, carved>>
    /\ UNCHANGED <<cfgvars, outvars, runvars, stack, dir>>
    /\ UNCHANGED iters

\* a hunt that also stops at visited cells
HuntCellsAny(vis) ==
    { xy \in (0..(height - 1)) \X (0..(width - 1)) :
        HakNeighbors(xy[1], xy[2], vis, TRUE) # << >> }

\* the cells hunt() may stop at: unvisited, with a visited neighbour
HuntCells(vis) ==
    { xy \in (0..(height - 1)) \X (0..(width - 1)) :
        /\ xy \notin vis
        /\ HakNeighbors(xy[1], xy[2], vis, TRUE) # << >> }

\* the last of S in that scan
LastRowMajor(S) ==
    CHOOSE xy \in S :
        \A o \in S : xy[1] * width + xy[2] >= o[1] * width + o[2]

\* the first of S in the scan `for x in range(height): for y in range(width)`
FirstRowMajor(S) ==
    CHOOSE xy \in S :
        \A o \in S : xy[1] * width + xy[2] <= o[1] * width + o[2]

\* hunt(), and the outer loop's `if not found: break`
hunt ==
    /\ pc = "hunt"
    /\ LET found == HuntCells(visited)
       IN IF found = {}
          THEN /\ pc' = "generated"
               /\ UNCHANGED <<grid, visited, cur, rng, carved>>
          ELSE LET xy == FirstRowMajor(found)
                   x == xy[1]
                   y == xy[2]
                   candidates == HakNeighbors(x, y, visited, TRUE)
               IN \E ch \in RandBelow(rng, Len(candidates)) :
                    LET c == ch[1] + 1
                    IN /\ rng' = ch[2]
                       /\ grid' = Carve(grid, x, y, candidates[c][1],
                                        candidates[c][2], candidates[c][3],
                                        OPP[candidates[c][3] + 1])
                       /\ carved' = Log(carved, <<x, y, candidates[c][1],
                                                  candidates[c][2]>>)
                       /\ visited' = visited \cup {xy}
                       /\ cur' = xy
                       /\ pc' = "kill"
    /\ UNCHANGED <<cfgvars, outvars, runvars, stack, dir>>
    /\ iters' = iters + 1

\* ------------------------------------------------- HaKMazeGenerator (flat)
\* cells are (x, y) with x the column and y the row: self.grid[y][x]
\* _get_unvisited_neighbors (want = FALSE) / _get_visited_neighbors
\* (want = TRUE): (nx, ny, direction) in the order N, E, S, W
FlatNeighbors(x, y, vis, want) ==
    LET all == << <<x, y - 1, NORTH>>, <<x + 1, y, EAST>>,
                  <<x, y + 1, SOUTH>>, <<x - 1, y, WEST>> >>
        Keep(n) ==
            /\ \/ n[3] = NORTH /\ y > 0
               \/ n[3] = EAST /\ x < width - 1
               \/ n[3] = SOUTH /\ y < height - 1
               \/ n[3] = WEST /\ x > 0
            /\ (<<n[1], n[2]>> \in vis) = want
    IN SelectSeq(all, Keep)

\* a carve that removes the same wall of both cells
FlatCarveSameWall(g, x, y, nx, ny, direction) ==
    LET g1 == [g EXCEPT ![y + 1][x + 1] = remove_wall(@, direction)]
    IN [g1 EXCEPT ![ny + 1][nx + 1] = remove_wall(@, direction)]

\* cell.remove_wall(direction); other.remove_wall(self._opposite(direction))
FlatCarve(g, x, y, nx, ny, direction) ==
    LET g1 == [g EXCEPT ![y + 1][x + 1] = remove_wall(@, direction)]
    IN [g1 EXCEPT ![ny + 1][nx + 1] = remove_wall(@, opposite(direction))]

\* _all_visited
all_visited(vis) ==
    \A y \in 0..(height - 1) : \A x \in 0..(width - 1) : <<x, y>> \in vis

\* generate(): where the run goes when the `while not self._all_visited()`
\* test is made with the visited cells vis
FlatWhile(vis) ==
    IF all_visited(vis)
    THEN (IF perfect = FALSE THEN "loops" ELSE "generated")
    ELSE "fkill"

\* generate(): the random start cell
flat_start ==
    /\ pc = "config"
    /\ algorithm = "flat"
    /\ \E ry \in RandBelow(rng, height) : \E rx \in RandBelow(ry[2], width) :
        /\ rng' = rx[2]
        /\ cur' = <<rx[1], ry[1]>>
        /\ visited' = {<<rx[1], ry[1]>>}
        /\ pc' = FlatWhile({<<rx[1], ry[1]>>})
    /\ UNCHANGED <<cfgvars, outvars, runvars, grid, stack, dir, carved>>
    /\ iters' = 0

\* one call of the recursive _kill. `stack` holds the cells of the _kill
\* calls that wait for their recursive call to return, so Len(stack) + 1
\* calls are active; the interpreter raises RecursionError when a call
\* would need more frames than its limit (the frames of the callers of
\* _kill and of the helpers it calls only lower that threshold)
flat_kill ==
    /\ pc = "fkill"
    /\ LET nb == FlatNeighbors(cur[1], cur[2], visited, FALSE)
       IN IF nb = << >>
          THEN /\ pc' = "fhunt"
               /\ stack' = << >>
               /\ UNCHANGED <<grid, visited, cur, rng>>
          ELSE \E ch \in RandBelow(rng, Len(nb)) :
                 LET c == ch[1] + 1
                 IN /\ rng' = ch[2]
                    /\ grid' = FlatCarve(grid, cur[1], cur[2], nb[c][1],
                                         nb[c][2], nb[c][3])
                    /\ visited' = visited \cup {<<nb[c][1], nb[c][2]>>}
                    /\ IF Len(stack) + 2 > RecursionLimit
                       THEN /\ pc' = "error"
                            /\ UNCHANGED <<cur, stack>>
                       ELSE /\ cur' = <<nb[c][1], nb[c][2]>>
                            /\ stack' = Append(stack, cur)
                            /\ pc' = "fkill"
    /\ UNCHANGED <<cfgvars, outvars, runvars, dir, carved>>
    /\ UNCHANGED iters

\* a hunt that also returns visited cells
FlatHuntAnyCell(vis) ==
    { xy \in (0..(width - 1)) \X (0..(height - 1)) :
        FlatNeighbors(xy[1], xy[2], vis, TRUE) # << >> }

\* the cells _hunt may return: not visited, with a visited neighbour
FlatHuntCells(vis) ==
    { xy \in (0..(width - 1)) \X (0..(height - 1)) :
        /\ xy \notin vis
        /\ FlatNeighbors(xy[1], xy[2], vis, TRUE) # << >> }

\* the first of S in the scan `for y in range(height): for x in range(width)`
FlatFirst(S) ==
    CHOOSE xy \in S :
        \A o \in S : xy[2] * width + xy[1] <= o[2] * width + o[1]

\* _hunt, `if found: current = found`, and the next `while` test
flat_hunt ==
    /\ pc = "fhunt"
    /\ LET found == FlatHuntCells(visited)
       IN IF found = {}
          THEN /\ pc' = FlatWhile(visited)
               /\ UNCHANGED <<grid, visited, cur, rng>>
          ELSE LET xy == FlatFirst(found)
                   nb == FlatNeighbors(xy[1], xy[2], visited, TRUE)
               IN \E ch \in RandBelow(rng, Len(nb)) :
                    LET c == ch[1] + 1
                    IN /\ rng' = ch[2]
                       /\ grid' = FlatCarve(grid, xy[1], xy[2], nb[c][1],
                                            nb[c][2], nb[c][3])
                       /\ visited' = visited \cup {xy}
                       /\ cur' = xy
                       /\ pc' = FlatWhile(visited \cup {xy})
    /\ UNCHANGED <<cfgvars, outvars, runvars, stack, dir, carved>>
    /\ iters' = iters + 1

\* ---------------------------------------------- the kill phase as a whole
\* one draw in a known generator state: <<outcome, next state>>
Draw(r, n) == CHOOSE d \in RandBelow(r, n) : TRUE

\* hak.kill(x, y), the whole `while True` loop, on the grid g with the
\* visited set vis in the generator state r; cells are (row, column).
\* `opened` lists the walls opened, in order.
RECURSIVE KillLoop(_, _, _, _, _, _)
KillLoop(g, vis, x, y, r, opened) ==
    LET nb == HakNeighbors(x, y, vis, FALSE)
    IN IF nb = << >>
       THEN [error |-> "none", grid |-> g, visited |-> vis,
             cell |-> <<x, y>>, rng |-> r, opened |-> opened]
       ELSE LET d == Draw(r, Len(nb))
                n == nb[d[1] + 1]
            IN KillLoop(Carve(g, x, y, n[1], n[2], n[3], OPP[n[3] + 1]),
                        vis \cup {<<n[1], n[2]>>}, n[1], n[2], d[2],
                        Append(opened, <<x, y, n[1], n[2]>>))

\* HaKMazeGenerator._kill(cell), with its recursive calls; cells are (x, y)
\* with x the column and y the row. Each wall opened so far stands for one
\* call waiting for its recursive call to return; `cell` is the cell of the
\* call that returned or raised.
RECURSIVE KillRecursive(_, _, _, _, _, _)
KillRecursive(g, vis, x, y, r, opened) ==
    LET nb == FlatNeighbors(x, y, vis, FALSE)
    IN IF nb = << >>
       THEN [error |-> "none", grid |-> g, visited |-> vis,
             cell |-> <<x, y>>, rng |-> r, opened |-> opened]
       ELSE LET d == Draw(r, Len(nb))
                n == nb[d[1] + 1]
                g1 == FlatCarve(g, x, y, n[1], n[2], n[3])
                vis1 == vis \cup {<<n[1], n[2]>>}
                opened1 == Append(opened, <<x, y, n[1], n[2]>>)
            IN IF Len(opened) + 2 > RecursionLimit
               THEN [error |-> "RecursionError", grid |-> g1,
                     visited |-> vis1, cell |-> <<x, y>>, rng |-> d[2],
                     opened |-> opened1]
               ELSE KillRecursive(g1, vis1, n[1], n[2], d[2], opened1)

\* a list of the walls standing on each side of each cell, so that each
\* interior wall is listed once per adjacent cell
removable_walls_per_cell(g) ==
    LET RowMajor(k) == <<(k - 1) % width, (k - 1) \div width>>
        Side(k, direction, nx, ny) ==
            LET x == RowMajor(k)[1]
                y == RowMajor(k)[2]
            IN IF 0 <= nx /\ nx < width /\ 0 <= ny /\ ny < height
                  /\ has_wall(g[y + 1][x + 1], direction)
               THEN IF direction \in {EAST, SOUTH}
                    THEN << <<x, y, nx, ny, direction>> >>
                    ELSE << <<nx, ny, x, y, opposite(direction)>> >>
               ELSE << >>
        Cell(k) == LET x == RowMajor(k)[1]
                       y == RowMajor(k)[2]
                   IN Side(k, NORTH, x, y - 1) \o Side(k, EAST, x + 1, y)
                      \o Side(k, SOUTH, x, y + 1) \o Side(k, WEST, x - 1, y)
        Upto[k \in 0..(width * height)] ==
            IF k = 0 THEN << >> ELSE Upto[k - 1] \o Cell(k)
    IN Upto[width * height]

\* _create_loops: the removable walls (x, y, nx, ny, direction), row by row
removable_walls(g) ==
    LET RowMajor(k) == <<(k - 1) % width, (k - 1) \div width>>
        East(k) == LET x == RowMajor(k)[1]
                       y == RowMajor(k)[2]
                   IN IF x < width - 1 /\ has_wall(g[y + 1][x + 1], EAST)
                      THEN << <<x, y, x + 1, y, EAST>> >> ELSE << >>
        South(k) == LET x == RowMajor(k)[1]
                        y == RowMajor(k)[2]
                    IN IF y < height - 1 /\ has_wall(g[y + 1][x + 1], SOUTH)
                       THEN << <<x, y, x, y + 1, SOUTH>> >> ELSE << >>
        Upto[k \in 0..(width * height)] ==
            IF k = 0 THEN << >> ELSE Upto[k - 1] \o East(k) \o South(k)
    IN Upto[width * height]

\* a count of a tenth of the walls
num_to_remove_tenth(n) == n \div 10

\* int(len(removable_walls) * 0.05)
num_to_remove(n) == (n * 5) \div 100

\* the grid after removing the walls of `walls` at the positions in S
RECURSIVE RemoveWalls(_, _, _)
RemoveWalls(g, walls, S) ==
    IF S = {} THEN g
    ELSE LET k == Min(S)
             wl == walls[k]
         IN RemoveWalls(FlatCarve(g, wl[1], wl[2], wl[3], wl[4], wl[5]),
                        walls, S \ {k})

\* random.sample on a population of at most 21: pool = list(population);
\* for i in range(k): j = randbelow(n - i); result[i] = pool[j];
\* pool[j] = pool[n - i - 1]. The positions picked and the state reached.
RECURSIVE SamplePool(_, _, _, _, _, _)
SamplePool(r, pool, n, i, k, acc) ==
    IF i = k THEN <<acc, r>>
    ELSE LET d == CHOOSE e \in RandBelow(r, n - i) : TRUE
             j == d[1] + 1
         IN SamplePool(d[2], [pool EXCEPT ![j] = pool[n - i]], n, i + 1, k,
                       acc \cup {pool[j]})

\* random.sample on a larger population: for i in range(k):
\* j = randbelow(n); while j in selected: j = randbelow(n); selected.add(j)
RECURSIVE SampleSet(_, _, _, _, _)
SampleSet(r, n, i, k, selected) ==
    IF i = k THEN <<selected, r>>
    ELSE LET d == CHOOSE e \in RandBelow(r, n) : TRUE
         IN IF (d[1] + 1) \in selected
            THEN SampleSet(d[2], n, i, k, selected)
            ELSE SampleSet(d[2], n, i + 1, k, selected \cup {d[1] + 1})

\* random.sample(population, k) of a population of n in state r, for the
\* k <= 5 that the grids here give: the possible
\* <<set of the 1-based positions picked, next state>>
Sample(r, n, k) ==
    IF ~r.known
    THEN {<<S, r>> : S \in {T \in SUBSET (1..n) : Cardinality(T) = k}}
    ELSE IF n <= 21
         THEN {SamplePool(r, [q \in 1..n |-> q], n, 0, k, {})}
         ELSE {SampleSet(r, n, 0, k, {})}

\* _create_loops: sample() draws num_to_remove distinct walls
create_loops ==
    /\ pc = "loops"
    /\ LET walls == removable_walls(grid)
           n == num_to_remove(Len(walls))
       IN \E sm \in Sample(rng, Len(walls), n) :
            /\ grid' = RemoveWalls(grid, walls, sm[1])
            /\ rng' = sm[2]
    /\ pc' = "generated"
    /\ UNCHANGED <<cfgvars, outvars, runvars, stack, visited, dir, cur,
                   carved>>
    /\ UNCHANGED iters

\* ---------------------------------------------------------- the pathfinder
\* cells are (x, y) with x the column and y the row: self.grid[y][x]
\* grid[y][x] raises IndexError (indices here are never negative)
PfIndexError(f, pos) ==
    \/ pos[2] >= Len(f.grid)
    \/ pos[1] >= Len(f.grid[pos[2] + 1])

\* a neighbour enumeration in the order S, E, N, W
get_neighbors_south_first(f, pos) ==
    LET x == pos[1]
        y == pos[2]
        walls == f.grid[y + 1][x + 1]
    IN (IF y < f.height - 1 /\ ~HasBit(walls, 2)
        THEN << <<<<x, y + 1>>, "S">> >> ELSE << >>)
       \o (IF x < f.width - 1 /\ ~HasBit(walls, 1)
           THEN << <<<<x + 1, y>>, "E">> >> ELSE << >>)
       \o (IF y > 0 /\ ~HasBit(walls, 0)
           THEN << <<<<x, y - 1>>, "N">> >> ELSE << >>)
       \o (IF x > 0 /\ ~HasBit(walls, 3)
           THEN << <<<<x - 1, y>>, "W">> >> ELSE << >>)

\* PathFinder._get_neighbors: ((nx, ny), dir_char) in the order N, E, S, W
get_neighbors(f, pos) ==
    LET x == pos[1]
        y == pos[2]
        walls == f.grid[y + 1][x + 1]
    IN (IF y > 0 /\ ~HasBit(walls, 0)
        THEN << <<<<x, y - 1>>, "N">> >> ELSE << >>)
       \o (IF x < f.width - 1 /\ ~HasBit(walls, 1)
           THEN << <<<<x + 1, y>>, "E">> >> ELSE << >>)
       \o (IF y < f.height - 1 /\ ~HasBit(walls, 2)
           THEN << <<<<x, y + 1>>, "S">> >> ELSE << >>)
       \o (IF x > 0 /\ ~HasBit(walls, 3)
           THEN << <<<<x - 1, y>>, "W">> >> ELSE << >>)

\* PathFinder._build_path: the directions from start to `current`, following
\* parent back to the start
RECURSIVE build_path(_, _, _, _)
build_path(start, current, parent, direction_taken) ==
    IF current = start THEN << >>
    ELSE LET direction == direction_taken[current]
             step == IF direction # None THEN <<direction>> ELSE << >>
             next_cell == parent[current]
         IN IF next_cell = None THEN step
            ELSE build_path(start, next_cell, parent, direction_taken)
                 \o step

\* the `for neighbor, dir_char in ...` loop of find_path: the search state
\* after the neighbours nb of `current` are handled
RECURSIVE Enqueue(_, _, _)
Enqueue(st, current, nb) ==
    IF nb = << >> THEN st
    ELSE LET n == Head(nb)[1]
             c == Head(nb)[2]
         IN IF n \in DOMAIN st.parent
            THEN Enqueue(st, current, Tail(nb))
            ELSE Enqueue([queue |-> Append(st.queue, n),
                          parent |-> (n :> current) @@ st.parent,
                          direction_taken |->
                              (n :> c) @@ st.direction_taken],
                         current, Tail(nb))

\* the `while queue` loop of find_path
RECURSIVE Search(_, _, _, _)
Search(f, start, end, st) ==
    IF st.queue = << >> THEN [error |-> "none", value |-> None]
    ELSE LET current == Head(st.queue)
         IN IF current = end
            THEN [error |-> "none",
                  value |-> build_path(start, end, st.parent,
                                       st.direction_taken)]
            ELSE IF PfIndexError(f, current)
            THEN [error |-> "IndexError", value |-> None]
            ELSE Search(f, start, end,
                        Enqueue([st EXCEPT !.queue = Tail(st.queue)],
                                current, get_neighbors(f, current)))

\* PathFinder.find_path: the string returned (None: no path), or the
\* exception raised
find_path(f) ==
    IF f.entry = None \/ f.exit = None
    THEN [error |-> "none", value |-> None]
    ELSE Search(f, f.entry, f.exit,
                [queue |-> <<f.entry>>,
                 parent |-> (f.entry :> None),
                 direction_taken |-> (f.entry :> None)])

\* ------------------------------------------------------------ the pipeline
\* MazeGenerator.write
write ==
    /\ pc = "generated"
    /\ algorithm \in {"dfs", "hak"}
    /\ file' = WriteLines(grid, entry, exit)
    /\ pc' = "written"
    /\ UNCHANGED <<cfgvars, genvars, runvars, pf, path, view>>

\* HaKMazeGenerator.save
save ==
    /\ pc = "generated"
    /\ algorithm = "flat"
    /\ file' = SaveLines(grid, entry, exit)
    /\ pc' = "written"
    /\ UNCHANGED <<cfgvars, genvars, runvars, pf, path, view>>

\* MazeGenerator.save of src/mazegen.py
flat_save ==
    /\ pc = "generated"
    /\ algorithm = "flatdfs"
    /\ file' = FlatSaveLines(grid, width, height, entry, exit)
    /\ pc' = "written"
    /\ UNCHANGED <<cfgvars, genvars, runvars, pf, path, view>>

\* PathFinder(output_file)
load ==
    /\ pc = "written"
    /\ pf' = LoadMaze(file)
    /\ pc' = IF LoadMaze(file).error = "none" THEN "loaded" ELSE "error"
    /\ UNCHANGED <<cfgvars, genvars, runvars, file, path, view>>

\* a save_path that opens the file for writing instead of appending
save_path_overwrite ==
    /\ pc = "loaded"
    /\ LET found == find_path(pf)
       IN IF found.error # "none"
          THEN /\ pc' = "error"
               /\ UNCHANGED <<file, path>>
          ELSE /\ path' = found.value
               /\ file' = IF found.value # None
                          THEN <<found.value>> ELSE file
               /\ pc' = "solved"
    /\ UNCHANGED <<cfgvars, genvars, runvars, pf, view>>

\* PathFinder.save_path
save_path ==
    /\ pc = "loaded"
    /\ LET found == find_path(pf)
       IN IF found.error # "none"
          THEN /\ pc' = "error"
               /\ UNCHANGED <<file, path>>
          ELSE /\ path' = found.value
               /\ file' = IF found.value # None
                          THEN Append(file, found.value) ELSE file
               /\ pc' = "solved"
    /\ UNCHANGED <<cfgvars, genvars, runvars, pf, view>>

Next ==
    \/ dfs_start
    \/ dfs_loop
    \/ hak_start
    \/ kill
    \/ hunt
    \/ flat_start
    \/ flat_kill
    \/ flat_hunt
    \/ create_loops
    \/ write
    \/ save
    \/ load
    \/ save_path

Spec == Init /\ [][Next]_vars

\* ------------------------------------------------------------ seeded runs
\* a reset that leaves the grid as the last run left it
reset_nothing ==
    /\ pc \in {"generated", "written", "error"}
    /\ run < MaxRuns
    /\ grid' = grid
    /\ run' = run + 1
    /\ first' = IF run = 1
                THEN [carved |-> carved, grid |-> grid, file |-> file]
                ELSE first
    /\ carved' = << >>
    /\ pc' = "config"
    /\ UNCHANGED <<cfgvars, outvars, stack, visited, dir, cur, rng>>
    /\ UNCHANGED iters

\* MazeGenerator.reset, called between two generation runs of one
\* configuration, after the run ended, was written or aborted: a fresh
\* fully-walled grid. What the first run carved and wrote is kept for
\* comparison.
reset ==
    /\ pc \in {"generated", "written", "error"}
    /\ run < MaxRuns
    /\ grid' = FullGrid(width, height)
    /\ run' = run + 1
    /\ first' = IF run = 1
                THEN [carved |-> carved, grid |-> grid, file |-> file]
                ELSE first
    /\ carved' = << >>
    /\ pc' = "config"
    /\ UNCHANGED <<cfgvars, outvars, stack, visited, dir, cur, rng>>
    /\ UNCHANGED iters

\* a valid configuration with a SEED key, read by MazeGenerator.read
InitSeed ==
    /\ algorithm \in {"dfs", "hak"}
    /\ width \in 1..MaxW
    /\ height \in 1..MaxH
    /\ entry \in Coords
    /\ exit \in Coords
    /\ ValidConfig(width, height, entry, exit)
    /\ perfect \in BOOLEAN
    /\ seed \in {SeedOf(n) : n \in 0..MaxSeed}
    /\ grid = FullGrid(width, height)
    /\ stack = << >>
    /\ visited = {}
    /\ dir = neighbors
    /\ cur = <<0, 0>>
    /\ file = << >>
    /\ pf = NoPathFinder
    /\ path = None
    /\ view = NoView
    /\ rng = Entropy
    /\ run = 1
    /\ carved = << >>
    /\ iters = 0
    /\ first = NoRun
    /\ pc = "config"

NextSeed ==
    \/ dfs_start
    \/ dfs_loop
    \/ hak_start
    \/ kill
    \/ hunt
    \/ write
    \/ reset

SpecSeed == InitSeed /\ [][NextSeed]_vars

\* ------------------------------------------------------------ regeneration
\* generate() called again on the same MazeGenerator, after the seed and
\* the algorithm were set anew (the seed and algorithm setters): generate()
\* dispatches to dfs() or hak() on self._grid as it is.
regenerate ==
    /\ pc \in {"generated", "written"}
    /\ run < MaxRuns
    /\ seed' \in {SeedOf(n) : n \in 0..MaxSeed}
    /\ algorithm' \in {"dfs", "hak"}
    /\ run' = run + 1
    /\ first' = IF run = 1
                THEN [carved |-> carved, grid |-> grid, file |-> file]
                ELSE first
    /\ carved' = << >>
    /\ pc' = "config"
    /\ UNCHANGED <<width, height, entry, exit, perfect, outvars, grid, stack,
                   visited, dir, cur, rng>>
    /\ UNCHANGED iters

InitRegen ==
    /\ InitSeed
    /\ perfect

NextRegen ==
    \/ dfs_start
    \/ dfs_loop
    \/ hak_start
    \/ kill
    \/ hunt
    \/ write
    \/ regenerate

SpecRegen == InitRegen /\ [][NextRegen]_vars

\* ------------------------------------------------ one output file, reused
\* PathFinder(output_file) built on the file as it stands, whenever a maze
\* was written to it; the object built earlier is replaced by the new one
construct ==
    /\ pc = "written"
    /\ LoadMaze(file).error = "none"
    /\ pf' = LoadMaze(file)
    /\ UNCHANGED <<cfgvars, genvars, runvars, file, path, view, pc>>

\* save_path() called on the PathFinder object at hand, which may have been
\* built before the file was written again: find_path works on the grid,
\* entry and exit loaded by __init__, and the file is opened for appending
save_path_held ==
    /\ pc = "written"
    /\ pf # NoPathFinder
    /\ Len(file) < height + 3 + MaxPaths
    /\ LET found == find_path(pf)
       IN IF found.error # "none"
          THEN /\ pc' = "error"
               /\ UNCHANGED <<file, path>>
          ELSE /\ path' = found.value
               /\ file' = IF found.value # None
                          THEN Append(file, found.value) ELSE file
               /\ pc' = pc
    /\ UNCHANGED <<cfgvars, genvars, runvars, pf, view>>

InitReuse ==
    /\ Init
    /\ algorithm \in {"dfs", "hak"}
    /\ entry = <<0, 0>>

NextReuse ==
    \/ dfs_start
    \/ dfs_loop
    \/ hak_start
    \/ kill
    \/ hunt
    \/ write
    \/ construct
    \/ save_path_held
    \/ reset

SpecReuse == InitReuse /\ [][NextReuse]_vars

\* ------------------------------------------------------ hand-written files
\* PathFinder(output_file) on a file that no generator wrote: up to FileH
\* rows of up to FileW hex digits each, of any lengths; a blank line; and
\* none, one or both of the coordinate lines
FileRows ==
    LET Row == UNION {[1..n -> {"1", "D", "F"}] : n \in 1..FileW}
    IN UNION {[1..n -> Row] : n \in 1..FileH}

FileCoords ==
    {<< >>, << <<"0", ",", " ", "0">> >>}
    \cup {<< <<"0", ",", " ", "0">>, x >> :
            x \in {<<"0", ",", " ", "1">>, <<"1", ",", " ", "0">>,
                   <<"1", ",", " ", "1">>}}

InitFiles ==
    /\ algorithm = "dfs"
    /\ width = 1
    /\ height = 2
    /\ entry = <<0, 0>>
    /\ exit = <<0, 1>>
    /\ perfect = TRUE
    /\ seed = NoSeed
    /\ grid = FullGrid(width, height)
    /\ stack = << >>
    /\ visited = {}
    /\ dir = neighbors
    /\ cur = <<0, 0>>
    /\ \E rows \in FileRows : \E coords \in FileCoords :
         file = rows \o << << >> >> \o coords
    /\ pf = NoPathFinder
    /\ path = None
    /\ view = NoView
    /\ rng = Entropy
    /\ run = 1
    /\ carved = << >>
    /\ iters = 0
    /\ first = NoRun
    /\ pc = "written"

NextFiles ==
    \/ load
    \/ save_path

SpecFiles == InitFiles /\ [][NextFiles]_vars

\* ------------------------------------------------- configuration reading
\* self._grid of a MazeGenerator that has read no configuration: None
NoGrid == << >>

\* a read() that does not compare entry and exit
ReadErrorNoEqual(w, h, en, ex) ==
    IF w < 0 \/ h < 0 \/ en[1] < 0 \/ en[2] < 0 \/ ex[1] < 0 \/ ex[2] < 0
    THEN "ValueError: must be non-negative"
    ELSE IF ~(0 <= en[1] /\ en[1] < w /\ 0 <= en[2] /\ en[2] < h)
    THEN "ValueError: entry coordinates out of bounds"
    ELSE IF ~(0 <= ex[1] /\ ex[1] < w /\ 0 <= ex[2] /\ ex[2] < h)
    THEN "ValueError: exit coordinates out of bounds"
    ELSE "none"

\* MazeGenerator.read on the integers of a configuration file: the error it
\* raises, or "none". Negative integers are refused while the lines are
\* read; there is no test of width or height themselves.
ReadError(w, h, en, ex) ==
    IF w < 0 \/ h < 0 \/ en[1] < 0 \/ en[2] < 0 \/ ex[1] < 0 \/ ex[2] < 0
    THEN "ValueError: must be non-negative"
    ELSE IF ~(0 <= en[1] /\ en[1] < w /\ 0 <= en[2] /\ en[2] < h)
    THEN "ValueError: entry coordinates out of bounds"
    ELSE IF ~(0 <= ex[1] /\ ex[1] < w /\ 0 <= ex[2] /\ ex[2] < h)
    THEN "ValueError: exit coordinates out of bounds"
    ELSE IF en = ex
    THEN "ValueError: entry and exit must be different"
    ELSE "none"

\* ConfigParser._validate: the ParsingError it raises, or "none"
ValidateError(w, h, en, ex) ==
    IF w < 1 THEN "ParsingError: WIDTH must be positive"
    ELSE IF h < 1 THEN "ParsingError: HEIGHT must be positive"
    ELSE IF w * h < 2 THEN "ParsingError: Maze too small"
    ELSE IF en[1] < 0 \/ en[2] < 0
    THEN "ParsingError: ENTRY coordinates can't be negative"
    ELSE IF ~(0 <= en[1] /\ en[1] < w /\ 0 <= en[2] /\ en[2] < h)
    THEN "ParsingError: ENTRY outside maze bounds"
    ELSE IF ex[1] < 0 \/ ex[2] < 0
    THEN "ParsingError: EXIT coordinates can't be negative"
    ELSE IF ~(0 <= ex[1] /\ ex[1] < w /\ 0 <= ex[2] /\ ex[2] < h)
    THEN "ParsingError: EXIT outside maze bounds"
    ELSE IF en = ex
    THEN "ParsingError: Entry and exit must be different cells"
    ELSE "none"

\* MazeGenerator.read: raise, or allocate the grid of 15s
read ==
    /\ pc = "start"
    /\ algorithm \in {"dfs", "hak"}
    /\ IF ReadError(width, height, entry, exit) = "none"
       THEN /\ grid' = FullGrid(width, height)
            /\ pc' = "config"
       ELSE /\ grid' = grid
            /\ pc' = "rejected"
    /\ UNCHANGED <<cfgvars, outvars, runvars, stack, visited, dir, cur, rng,
                   carved>>
    /\ UNCHANGED iters

\* ConfigParser.parse, then HaKMazeGenerator(config): raise and exit, or
\* create the grid and seed the generator
parse ==
    /\ pc = "start"
    /\ algorithm = "flat"
    /\ IF ValidateError(width, height, entry, exit) = "none"
       THEN /\ grid' = FullGrid(width, height)
            /\ rng' = IF seed # NoSeed THEN Seed(seed) ELSE rng
            /\ pc' = "config"
       ELSE /\ UNCHANGED <<grid, rng>>
            /\ pc' = "rejected"
    /\ UNCHANGED <<cfgvars, outvars, runvars, stack, visited, dir, cur,
                   carved>>
    /\ UNCHANGED iters

\* the integers a configuration file may hold
RawW == (-1)..MaxW
RawH == (-1)..MaxH

\* a process started on a configuration file with a SEED key, valid or not
InitConfig ==
    /\ algorithm \in Algorithms
    /\ width \in RawW
    /\ height \in RawH
    /\ entry \in RawW \X RawH
    /\ exit \in RawW \X RawH
    /\ perfect \in BOOLEAN
    /\ seed \in {SeedOf(0), SeedOf(MaxSeed)}
    /\ grid = NoGrid
    /\ stack = << >>
    /\ visited = {}
    /\ dir = neighbors
    /\ cur = <<0, 0>>
    /\ file = << >>
    /\ pf = NoPathFinder
    /\ path = None
    /\ view = NoView
    /\ rng = Entropy
    /\ run = 1
    /\ carved = << >>
    /\ iters = 0
    /\ first = NoRun
    /\ pc = "start"

NextConfig ==
    \/ read
    \/ parse
    \/ dfs_start
    \/ dfs_loop
    \/ hak_start
    \/ kill
    \/ hunt
    \/ flat_start
    \/ flat_kill
    \/ flat_hunt
    \/ create_loops
    \/ write
    \/ save

SpecConfig == InitConfig /\ [][NextConfig]_vars

\* ------------------------------------------------ a second configuration
\* what a configuration file may be: absent, without one of the mandatory
\* keys, with a PERFECT value that is no boolean, or complete
FileKinds == {"nofile", "missing", "perfect", "ok"}

\* the entries and exits the files of a second read() hold
SecondEntries == {<<0, 0>>, <<-1, 0>>, <<MaxW, 0>>}
SecondExits == {<<0, 0>>, <<1, 0>>, <<0, MaxH>>}

\* MazeGenerator.read on a file of kind k holding these integers: the
\* first exception raised, in the order of the code, or "none"
ReadRaises(k, w, h, en, ex) ==
    IF k = "nofile" THEN "FileNotFoundError"
    ELSE IF w < 0 \/ h < 0 \/ en[1] < 0 \/ en[2] < 0 \/ ex[1] < 0 \/ ex[2] < 0
    THEN "ValueError: must be non-negative"
    ELSE IF k = "missing" THEN "KeyError: Missing keys"
    ELSE IF k = "perfect" THEN "ValueError: PERFECT key must be boolean"
    ELSE ReadError(w, h, en, ex)

\* a read() that stores the width, the height and the grid before it
\* validates the entry and the exit
read_again_early ==
    /\ pc \in {"config", "generated"}
    /\ run < MaxRuns
    /\ \E k \in FileKinds, w \in RawW, h \in RawH,
          en \in SecondEntries, ex \in SecondExits :
        IF ReadRaises(k, w, h, en, ex) # "none"
        THEN /\ pc' = "rejected"
             /\ IF k = "ok" /\ w >= 0 /\ h >= 0
                THEN /\ grid' = FullGrid(w, h)
                     /\ width' = w
                     /\ height' = h
                ELSE UNCHANGED <<grid, width, height>>
             /\ UNCHANGED <<algorithm, entry, exit, perfect, seed, run,
                            carved>>
        ELSE /\ \E p \in BOOLEAN, sd \in {NoSeed, SeedOf(0)},
                   al \in {"dfs", "hak"} :
                  /\ perfect' = p
                  /\ seed' = sd
                  /\ algorithm' = al
             /\ grid' = FullGrid(w, h)
             /\ width' = w
             /\ height' = h
             /\ entry' = en
             /\ exit' = ex
             /\ run' = run + 1
             /\ carved' = << >>
             /\ pc' = "config"
    /\ UNCHANGED <<outvars, stack, visited, dir, cur, rng, iters, first>>

\* read() called on a generator that already holds a configuration,
\* before or after it generated: every raise comes before the first
\* assignment to self
read_again ==
    /\ pc \in {"config", "generated"}
    /\ run < MaxRuns
    /\ \E k \in FileKinds, w \in RawW, h \in RawH,
          en \in SecondEntries, ex \in SecondExits :
        IF ReadRaises(k, w, h, en, ex) # "none"
        THEN /\ pc' = "rejected"
             /\ UNCHANGED <<cfgvars, grid, run, carved>>
        ELSE /\ \E p \in BOOLEAN, sd \in {NoSeed, SeedOf(0)},
                   al \in {"dfs", "hak"} :
                  /\ perfect' = p
                  /\ seed' = sd
                  /\ algorithm' = al
             /\ grid' = FullGrid(w, h)
             /\ width' = w
             /\ height' = h
             /\ entry' = en
             /\ exit' = ex
             /\ run' = run + 1
             /\ carved' = << >>
             /\ pc' = "config"
    /\ UNCHANGED <<outvars, stack, visited, dir, cur, rng, iters, first>>

NextReread ==
    \/ dfs_start
    \/ dfs_loop
    \/ hak_start
    \/ kill
    \/ hunt
    \/ read_again

SpecReread == InitSeed /\ [][NextReread]_vars

\* ------------------------------------------------------- loop carving runs
\* HaKMazeGenerator(config) with a SEED key, on grids up to LoopW x LoopH,
\* large enough for _create_loops to open a wall. __init__ seeds the
\* generator, so each run is the one run of its seed.
InitLoops ==
    /\ algorithm = "flat"
    /\ width \in {2, LoopW}
    /\ height \in {2, LoopH}
    /\ entry = <<0, 0>>
    /\ exit = <<1, 1>>
    /\ perfect \in BOOLEAN
    /\ seed \in {SeedOf(n) : n \in 0..MaxLoopSeed}
    /\ grid = FullGrid(width, height)
    /\ stack = << >>
    /\ visited = {}
    /\ dir = neighbors
    /\ cur = <<0, 0>>
    /\ file = << >>
    /\ pf = NoPathFinder
    /\ path = None
    /\ view = NoView
    /\ rng = Seed(seed)
    /\ run = 1
    /\ carved = << >>
    /\ iters = 0
    /\ first = NoRun
    /\ pc = "config"

NextLoops ==
    \/ flat_start
    \/ flat_kill
    \/ flat_hunt
    \/ create_loops
    \/ save

SpecLoops == InitLoops /\ [][NextLoops]_vars


\* ------------------------------------------------- the open-edge graph
\* Cells of a grid of w columns and h rows, as (row, column)
GridCells(w, h) == (0..(h - 1)) \X (0..(w - 1))

\* bit0 = North, bit1 = East, bit2 = South, bit3 = West: the (row, column)
\* step of wall bit i, and the bit of the facing wall
StepOf(i) == << <<-1, 0>>, <<0, 1>>, <<1, 0>>, <<0, -1>> >>[i + 1]

FacingBit(i) == (i + 2) % 4

\* b is the grid neighbour of a through wall bit i
NeighbourVia(a, i) == <<a[1] + StepOf(i)[1], a[2] + StepOf(i)[2]>>

\* a and b are grid-adjacent and neither's wall bit facing the other is set
OpenEdge(g, w, h, a, b) ==
    \E i \in 0..3 :
        /\ b = NeighbourVia(a, i)
        /\ a \in GridCells(w, h) /\ b \in GridCells(w, h)
        /\ ~HasBit(g[a[1] + 1][a[2] + 1], i)
        /\ ~HasBit(g[b[1] + 1][b[2] + 1], FacingBit(i))

\* the open edges, each once: from a through East or South
OpenEdges(g, w, h) ==
    { e \in GridCells(w, h) \X {1, 2} :
        OpenEdge(g, w, h, e[1], NeighbourVia(e[1], e[2])) }

RECURSIVE ReachFrom(_, _, _, _, _)
ReachFrom(g, w, h, frontier, seen) ==
    LET nxt == { b \in GridCells(w, h) \ seen :
                   \E a \in frontier : OpenEdge(g, w, h, a, b) }
    IN IF nxt = {} THEN seen ELSE ReachFrom(g, w, h, nxt, seen \cup nxt)

\* the cells joined to a by open edges, a included
Component(g, w, h, a) == ReachFrom(g, w, h, {a}, {a})

RECURSIVE CountComponents(_, _, _, _)
CountComponents(g, w, h, left) ==
    IF left = {} THEN 0
    ELSE LET a == CHOOSE c \in left : TRUE
         IN 1 + CountComponents(g, w, h, left \ Component(g, w, h, a))

Connected(g, w, h) == CountComponents(g, w, h, GridCells(w, h)) = 1

\* a forest: edges = cells - components
Acyclic(g, w, h) ==
    Cardinality(OpenEdges(g, w, h)) =
        w * h - CountComponents(g, w, h, GridCells(w, h))

SpanningTree(g, w, h) ==
    /\ Cardinality(OpenEdges(g, w, h)) = w * h - 1
    /\ Connected(g, w, h)
    /\ Acyclic(g, w, h)

\* ------------------------------------- a generator holding an arbitrary grid
\* The grid, entry and exit of a MazeGenerator are settable properties, and a
\* maze file may be written by hand: the codec and the pathfinder are also
\* run on grids no generator carved.

\* masks running through the hex digits: cell k (row by row) holds
\* base + k * step (mod 16)
DigitGrid(w, h, base, step) ==
    [r \in 1..h |-> [c \in 1..w |->
        (base + ((r - 1) * w + (c - 1)) * step) % 16]]

CoordVals == (-1)..MaxCoord

InitCodec ==
    /\ algorithm \in {"dfs", "flat", "flatdfs"}
    /\ width \in 1..MaxW
    /\ height \in 1..MaxH
    /\ \E base \in 0..FULL : \E step \in {0, 1, 5} :
         grid = DigitGrid(width, height, base, step)
    /\ entry \in CoordVals \X CoordVals
    /\ exit \in {<<entry[2], entry[1]>>, <<MaxCoord - entry[1], entry[2] + 1>>}
    /\ perfect = TRUE
    /\ stack = << >>
    /\ visited = {}
    /\ dir = neighbors
    /\ cur = <<0, 0>>
    /\ file = << >>
    /\ pf = NoPathFinder
    /\ path = None
    /\ view = NoView
    /\ seed = NoSeed
    /\ rng = Entropy
    /\ run = 1
    /\ carved = << >>
    /\ iters = 0
    /\ first = NoRun
    /\ pc = "generated"

NextCodec ==
    \/ write
    \/ save
    \/ flat_save
    \/ load

SpecCodec == InitCodec /\ [][NextCodec]_vars

\* the interior walls of a w by h grid: (cell, wall bit), East or South
InteriorWalls(w, h) ==
    { e \in GridCells(w, h) \X {1, 2} :
        NeighbourVia(e[1], e[2]) \in GridCells(w, h) }

\* the grid in which each interior wall is "open" (both bits clear),
\* "closed" (both set) or "half" (only the bit of the north/west cell
\* clear); the outer walls stand
CraftedGrid(w, h, st) ==
    [r \in 1..h |-> [c \in 1..w |->
        LET a == <<r - 1, c - 1>>
            Gone(i) ==
                \/ /\ i \in {1, 2}
                   /\ <<a, i>> \in InteriorWalls(w, h)
                   /\ st[<<a, i>>] \in {"open", "half"}
                \/ /\ i \in {0, 3}
                   /\ NeighbourVia(a, i) \in GridCells(w, h)
                   /\ st[<<NeighbourVia(a, i), FacingBit(i)>>] = "open"
        IN (IF Gone(0) THEN 0 ELSE 1) + (IF Gone(1) THEN 0 ELSE 2)
           + (IF Gone(2) THEN 0 ELSE 4) + (IF Gone(3) THEN 0 ELSE 8)]]

InitPath ==
    /\ algorithm = "dfs"
    /\ width \in 1..MaxW
    /\ height \in 1..MaxH
    /\ \E st \in [InteriorWalls(width, height) -> {"open", "closed", "half"}] :
         grid = CraftedGrid(width, height, st)
    /\ entry \in (0..(width - 1)) \X (0..(height - 1))
    /\ exit \in (0..(width - 1)) \X (0..(height - 1))
    /\ perfect = TRUE
    /\ stack = << >>
    /\ visited = {}
    /\ dir = neighbors
    /\ cur = <<0, 0>>
    /\ file = << >>
    /\ pf = NoPathFinder
    /\ path = None
    /\ view = NoView
    /\ seed = NoSeed
    /\ rng = Entropy
    /\ run = 1
    /\ carved = << >>
    /\ iters = 0
    /\ first = NoRun
    /\ pc = "generated"

NextPath ==
    \/ write
    \/ load
    \/ save_path

SpecPath == InitPath /\ [][NextPath]_vars

\* -------------------------------------------------------------- open grids
\* a grid with every wall bit cleared (mask 0 in every cell), or with only
\* the interior walls cleared, set on the generator and written out
OpenGrid(w, h, outer) ==
    [r \in 1..h |-> [c \in 1..w |->
        IF outer
        THEN (IF r = 1 THEN 1 ELSE 0) + (IF c = w THEN 2 ELSE 0)
             + (IF r = h THEN 4 ELSE 0) + (IF c = 1 THEN 8 ELSE 0)
        ELSE 0]]

InitOpen ==
    /\ algorithm = "dfs"
    /\ width \in 2..OpenW
    /\ height \in 2..OpenH
    /\ grid \in {OpenGrid(width, height, FALSE), OpenGrid(width, height, TRUE)}
    /\ entry \in (0..(width - 1)) \X (0..(height - 1))
    /\ exit \in (0..(width - 1)) \X (0..(height - 1))
    /\ perfect = FALSE
    /\ stack = << >>
    /\ visited = {}
    /\ dir = neighbors
    /\ cur = <<0, 0>>
    /\ file = << >>
    /\ pf = NoPathFinder
    /\ path = None
    /\ view = NoView
    /\ seed = NoSeed
    /\ rng = Entropy
    /\ run = 1
    /\ carved = << >>
    /\ iters = 0
    /\ first = NoRun
    /\ pc = "generated"

NextOpen ==
    \/ write
    \/ load
    \/ save_path

SpecOpen == InitOpen /\ [][NextOpen]_vars

\* ---------------------------------------------------------- long corridors
\* a one-row maze on which a kill phase walks more cells than the
\* interpreter allows nested calls
InitCorridor ==
    /\ algorithm \in {"hak", "flat"}
    /\ width = CorridorW
    /\ height = 1
    /\ entry = <<0, 0>>
    /\ exit = <<1, 0>>
    /\ perfect = TRUE
    /\ seed \in {SeedOf(n) : n \in 0..MaxSeed}
    /\ grid = FullGrid(width, height)
    /\ stack = << >>
    /\ visited = {}
    /\ dir = neighbors
    /\ cur = <<0, 0>>
    /\ file = << >>
    /\ pf = NoPathFinder
    /\ path = None
    /\ view = NoView
    /\ rng = IF algorithm = "flat" THEN Seed(seed) ELSE Entropy
    /\ run = 1
    /\ carved = << >>
    /\ iters = 0
    /\ first = NoRun
    /\ pc = "config"

NextCorridor ==
    \/ hak_start
    \/ kill
    \/ hunt
    \/ flat_start
    \/ flat_kill
    \/ flat_hunt

SpecCorridor == InitCorridor /\ [][NextCorridor]_vars

\* ------------------------------------------- instances sharing the generator
\* HaKMazeGenerator instances draw from the one generator of the random
\* module. `grid`, `visited` and `cur` belong to the instance whose
\* generate() is running; generate() calls do not overlap (the program is
\* single-threaded), constructions and the generate() calls of other
\* instances come between them.

\* HaKMazeGenerator.__init__ of another instance, built from a
\* configuration with a seed: seed(config.seed), and a grid of its own
hak_init ==
    /\ pc \in {"config", "generated"}
    /\ \E n \in 0..MaxSeed : rng' = Seed(SeedOf(n))
    /\ UNCHANGED <<cfgvars, outvars, runvars, grid, stack, visited, dir, cur,
                   carved, pc>>
    /\ UNCHANGED iters

\* generate() of an instance of another configuration, as far as this
\* one sees it: draws were made from the generator
other_generate ==
    /\ pc \in {"config", "generated"}
    /\ rng' = Advance(rng)
    /\ rng' # rng
    /\ UNCHANGED <<cfgvars, outvars, runvars, grid, stack, visited, dir, cur,
                   carved, pc>>
    /\ UNCHANGED iters

\* the first instance is done; the second instance of the same
\* configuration, whose __init__ built a fully-walled grid, is the one to
\* generate next. What the first one made is kept for comparison.
second_instance ==
    /\ pc = "generated"
    /\ run = 1
    /\ first' = [carved |-> carved, grid |-> grid, file |-> file]
    /\ run' = 2
    /\ grid' = FullGrid(width, height)
    /\ visited' = {}
    /\ cur' = <<0, 0>>
    /\ pc' = "config"
    /\ UNCHANGED <<cfgvars, outvars, stack, dir, rng, carved>>
    /\ UNCHANGED iters

\* two instances built from one configuration with a SEED: both __init__
\* calls were made, the generator is in the state seed(config.seed) left
InitShared ==
    /\ algorithm = "flat"
    /\ width \in 1..MaxW
    /\ height \in 1..MaxH
    /\ entry = <<0, 0>>
    /\ exit \in Coords
    /\ ValidConfig(width, height, entry, exit)
    /\ perfect \in BOOLEAN
    /\ seed \in {SeedOf(n) : n \in 0..MaxSeed}
    /\ grid = FullGrid(width, height)
    /\ stack = << >>
    /\ visited = {}
    /\ dir = neighbors
    /\ cur = <<0, 0>>
    /\ file = << >>
    /\ pf = NoPathFinder
    /\ path = None
    /\ view = NoView
    /\ rng = Seed(seed)
    /\ run = 1
    /\ carved = << >>
    /\ iters = 0
    /\ first = NoRun
    /\ pc = "config"

NextShared ==
    \/ flat_start
    \/ flat_kill
    \/ flat_hunt
    \/ create_loops
    \/ hak_init
    \/ other_generate
    \/ second_instance

SpecShared == InitShared /\ [][NextShared]_vars

\* ---------------------------------------------------------------- the drivers
\* MazeGenerator of src/mazegen.py: _dfs takes every in-bounds unvisited
\* neighbour
FlatDfsViable(d, x, y, vs) ==
    { k \in 1..4 :
        LET nx == x + d[k][1]
            ny == y + d[k][2]
        IN /\ 0 <= nx /\ nx < height /\ 0 <= ny /\ ny < width
           /\ <<nx, ny>> \notin vs }

\* generate() -> _dfs(): seed, stack, visited, dir
flatdfs_start ==
    /\ pc = "config"
    /\ algorithm = "flatdfs"
    /\ rng' = Seed(seed)
    /\ stack' = <<entry>>
    /\ visited' = {entry}
    /\ dir' = neighbors
    /\ pc' = "fdfs"
    /\ UNCHANGED <<cfgvars, outvars, runvars, grid, cur, carved>>
    /\ iters' = 0

\* one iteration of `while stack` of _dfs
flatdfs_loop ==
    /\ pc = "fdfs"
    /\ stack # << >>
    /\ \E sh \in Shuffle(dir, rng) :
        LET d == sh[1]
            x == stack[Len(stack)][1]
            y == stack[Len(stack)][2]
            viable == FlatDfsViable(d, x, y, visited)
        IN /\ dir' = d
           /\ rng' = sh[2]
           /\ IF viable = {}
              THEN /\ stack' = SubSeq(stack, 1, Len(stack) - 1)
                   /\ pc' = IF Len(stack) = 1 THEN "generated" ELSE "fdfs"
                   /\ UNCHANGED <<visited, grid, carved>>
              ELSE LET k == Min(viable)
                       nx == x + d[k][1]
                       ny == y + d[k][2]
                       i == IndexOf(d[k])
                   IN /\ stack' = Append(stack, <<nx, ny>>)
                      /\ visited' = visited \cup {<<nx, ny>>}
                      /\ IF InGrid(width, height, x, y)
                         THEN /\ grid' = Carve(grid, x, y, nx, ny, i,
                                               opposite_wall[i + 1])
                              /\ carved' = Log(carved, <<x, y, nx, ny>>)
                              /\ pc' = "fdfs"
                         ELSE /\ grid' = grid
                              /\ carved' = carved
                              /\ pc' = "error"
    /\ UNCHANGED <<cfgvars, outvars, runvars, cur>>
    /\ iters' = iters + 1

\* Point(*(int(x) for x in line.strip().split(","))): the pair, or the
\* exception raised
ReadPoint(line) ==
    LET parts == Split(Strip(line))
    IN IF \E k \in 1..Len(parts) : ~IsInt(Strip(parts[k]))
       THEN [error |-> "ValueError"]
       ELSE IF Len(parts) # 2 THEN [error |-> "TypeError"]
       ELSE [error |-> "none",
             value |-> <<IntVal(Strip(parts[1])), IntVal(Strip(parts[2]))>>]

\* Visualizer.read on the lines of the file: the rows up to the first empty
\* line, then the start, the end and the path line; readline() past the
\* end of the file gives ''
VisRead(lines) ==
    LET blanks == {k \in 1..Len(lines) : lines[k] = << >>}
        nrows == IF blanks = {} THEN Len(lines) ELSE Min(blanks) - 1
        rows == [r \in 1..nrows |->
                    [c \in 1..Len(Strip(lines[r])) |->
                        HexVal(Strip(lines[r])[c])]]
        badrow == \E r \in 1..nrows : \E c \in 1..Len(rows[r]) :
                    rows[r][c] = -1
        Line(k) == IF k <= Len(lines) THEN lines[k] ELSE << >>
        st == ReadPoint(Line(nrows + 2))
        en == ReadPoint(Line(nrows + 3))
        failed(e) == [NoView EXCEPT !.error = e]
    IN IF badrow THEN failed("ValueError")
       ELSE IF st.error # "none" THEN failed(st.error)
       ELSE IF en.error # "none" THEN failed(en.error)
       ELSE IF nrows = 0 THEN failed("IndexError")
       ELSE [maze |-> rows, start |-> st.value, end |-> en.value,
             path |-> Strip(Line(nrows + 4)), error |-> "none"]

\* src/a_maze_ing.py when `mazegen` resolves to the package, whose
\* MazeGenerator has no parse(): maze.parse(parser) raises AttributeError
parse_missing ==
    /\ pc = "config"
    /\ algorithm = "flatdfs"
    /\ run = 1
    /\ pc' = "error"
    /\ UNCHANGED <<cfgvars, genvars, runvars, outvars>>

\* src/a_maze_ing.py: maze.generate(); maze.save(); vis = Visualizer();
\* vis.read(parser.output_file); vis.render()
vis_read ==
    /\ pc = "written"
    /\ algorithm = "flatdfs"
    /\ view' = VisRead(file)
    /\ pc' = IF VisRead(file).error = "none" THEN "rendered" ELSE "error"
    /\ UNCHANGED <<cfgvars, genvars, runvars, file, pf, path>>

\* src/bak/a_maze_ing.py: path = PathFinder(config.output_file);
\* path.save_path(); vis = Visualizer(); vis.read(config.output_file)
bak_vis_read ==
    /\ pc = "solved"
    /\ view' = VisRead(file)
    /\ pc' = IF VisRead(file).error = "none" THEN "shown" ELSE "error"
    /\ UNCHANGED <<cfgvars, genvars, runvars, file, pf, path>>

\* src/bak/a_maze_ing.py: regenerate, config.seed = vis.render() with
\* regenerate true, and the loop builds a new generator from the
\* configuration: a fully-walled grid; HaKMazeGenerator.__init__ seeds the
\* generator when the seed is not None
driver_again ==
    /\ pc = "shown"
    /\ run < MaxRuns
    /\ seed' \in {NoSeed, SeedOf(MaxSeed)}
    /\ rng' = IF algorithm = "flat" /\ seed' # NoSeed THEN Seed(seed')
              ELSE rng
    /\ grid' = FullGrid(width, height)
    /\ stack' = << >>
    /\ visited' = {}
    /\ cur' = <<0, 0>>
    /\ carved' = << >>
    /\ run' = run + 1
    /\ pc' = "config"
    /\ UNCHANGED <<algorithm, width, height, entry, exit, perfect, outvars,
                   dir, first>>
    /\ UNCHANGED iters

\* a valid configuration parsed by ConfigParser, and the generator the
\* driver builds from it
InitDriver ==
    /\ algorithm \in {"flat", "flatdfs"}
    /\ width \in 1..MaxW
    /\ height \in 1..MaxH
    /\ entry \in Coords
    /\ exit \in Coords
    /\ ValidConfig(width, height, entry, exit)
    /\ perfect \in BOOLEAN
    /\ seed \in {SeedOf(n) : n \in 0..MaxSeed}
    /\ grid = FullGrid(width, height)
    /\ stack = << >>
    /\ visited = {}
    /\ dir = neighbors
    /\ cur = <<0, 0>>
    /\ file = << >>
    /\ pf = NoPathFinder
    /\ path = None
    /\ view = NoView
    /\ rng = IF algorithm = "flat" THEN Seed(seed) ELSE Entropy
    /\ run = 1
    /\ carved = << >>
    /\ iters = 0
    /\ first = NoRun
    /\ pc = "config"

NextDriver ==
    \/ parse_missing
    \/ flatdfs_start
    \/ flatdfs_loop
    \/ flat_start
    \/ flat_kill
    \/ flat_hunt
    \/ create_loops
    \/ flat_save
    \/ save
    \/ load
    \/ save_path
    \/ vis_read
    \/ bak_vis_read
    \/ driver_again

SpecDriver == InitDriver /\ [][NextDriver]_vars

\* ------------------------------------------------------------------ claims

RECURSIVE DfsReach(_, _)
DfsReach(frontier, seen) ==
    LET nxt == { b \in GridCells(width, height) \ seen :
                   /\ p42(width, height, b[1], b[2]) = 0
                   /\ \E a \in frontier : \E i \in 0..3 :
                        b = NeighbourVia(a, i) }
    IN IF nxt = {} THEN seen ELSE DfsReach(nxt, seen \cup nxt)

C3_HakSpanningTree ==
    (algorithm = "hak" /\ pc = "generated") =>
        SpanningTree(grid, width, height)

\* C4: HaKMazeGenerator.generate() with perfect = True ends with exactly
\* W*H-1 open edges forming a connected acyclic graph over all cells.
C4_FlatSpanningTree ==
    (algorithm = "flat" /\ perfect /\ pc = "generated") =>
        SpanningTree(grid, width, height)

\* a perfect run ended on a grid with a cycle of walls to choose from
C4_Witness ==
    /\ algorithm = "flat"
    /\ perfect
    /\ pc = "generated"
    /\ width >= 2 /\ height >= 2

\* the pathfinder's (x, y) as a (row, column) cell of the graph
RC(pos) == <<pos[2], pos[1]>>

\* the loaded grid is rectangular and holds the entry and the exit
PfInBounds ==
    /\ pf.entry # None /\ pf.exit # None
    /\ RC(pf.entry) \in GridCells(pf.width, pf.height)
    /\ RC(pf.exit) \in GridCells(pf.width, pf.height)

\* the least number of open edges from the cells of `frontier` to b, given
\* that b is joined to them
RECURSIVE Dist(_, _, _, _, _, _)
Dist(g, w, h, frontier, seen, b) ==
    IF b \in frontier THEN 0
    ELSE LET nxt == { c \in GridCells(w, h) \ seen :
                        \E a \in frontier : OpenEdge(g, w, h, a, c) }
         IN 1 + Dist(g, w, h, nxt, seen \cup nxt, b)

PfJoined ==
    RC(pf.exit) \in Component(pf.grid, pf.width, pf.height, RC(pf.entry))

\* C5: for every loaded grid with in-bounds entry and exit that are
\* connected, the length of the string find_path returns is the minimum
\* number of edges over all entry-to-exit routes in the open-edge graph.
C5_ShortestPath ==
    (pc = "solved" /\ PfInBounds /\ PfJoined) =>
        /\ path # None
        /\ Len(path) = Dist(pf.grid, pf.width, pf.height, {RC(pf.entry)},
                            {RC(pf.entry)}, RC(pf.exit))

\* the (x, y) step of a direction character
CharStep(c) ==
    IF c = "N" THEN <<0, -1>>
    ELSE IF c = "E" THEN <<1, 0>>
    ELSE IF c = "S" THEN <<0, 1>>
    ELSE <<-1, 0>>

\* following the characters of p from pos stays in the grid, crosses only
\* open edges and ends on `goal`
RECURSIVE ValidWalk(_, _, _)
ValidWalk(pos, p, goal) ==
    IF p = << >> THEN pos = goal
    ELSE LET nxt == <<pos[1] + CharStep(Head(p))[1],
                      pos[2] + CharStep(Head(p))[2]>>
         IN /\ Head(p) \in {"N", "E", "S", "W"}
            /\ RC(nxt) \in GridCells(pf.width, pf.height)
            /\ OpenEdge(pf.grid, pf.width, pf.height, RC(pos), RC(nxt))
            /\ ValidWalk(nxt, Tail(p), goal)

\* C6: whenever find_path returns a string, following its characters from
\* the entry stays inside the grid, crosses only open passages, one
\* character per edge in travel order, and ends on the exit.
C6_PathIsWalk ==
    (pc = "solved" /\ path # None) => ValidWalk(pf.entry, path, pf.exit)

\* C7: when entry and exit lie in different connected components of the
\* open-edge graph, find_path ends with None: no exception, no string.
C7_NoPathFound ==
    (pc \in {"solved", "error"} /\ pf.error = "none" /\ PfInBounds
        /\ ~PfJoined)
    => (pc = "solved" /\ path = None)

\* C8: for every maze a generator produced in perfect mode from a valid
\* MazeSpec, the pathfinder run on the serialized maze finds a path.
C8_PerfectHasPath ==
    (perfect /\ pc = "solved") => path # None

\* C9: deserializing what MazeGenerator.write wrote reproduces exactly the
\* same grid, width, height, entry and exit.
C9_RoundTrip ==
    (algorithm = "dfs" /\ pc \in {"loaded", "error"}) =>
        /\ pc = "loaded"
        /\ pf.grid = grid
        /\ pf.width = width
        /\ pf.height = height
        /\ pf.entry = entry
        /\ pf.exit = exit

\* a grid of two rows holding a letter digit, with a two-digit and a
\* negative coordinate, was written and loaded back
C9_Witness ==
    /\ algorithm = "dfs"
    /\ pc = "loaded"
    /\ height >= 2
    /\ \E r \in 1..height : \E c \in 1..width : grid[r][c] >= 10
    /\ entry[1] >= 10
    /\ entry[2] < 0

\* C10: a second run of dfs or hak with the same MazeSpec and seed on a fresh
\* fully-walled grid carves the same walls in the same order as the first
\* run, and ends with the same grid and the same serialized lines.
C10_SeededRunsAgree ==
    (run > 1) =>
        /\ Len(carved) <= Len(first.carved)
        /\ carved = SubSeq(first.carved, 1, Len(carved))
        /\ (pc \in {"generated", "written"}) =>
              /\ carved = first.carved
              /\ grid = first.grid
        /\ (pc = "written" /\ first.file # << >>) => file = first.file

\* a second seeded hak run that carved at least three walls was written
C10_Witness ==
    /\ run > 1
    /\ pc = "written"
    /\ first.file # << >>
    /\ algorithm = "hak"
    /\ Len(carved) >= 3

\* an entry (x, y, nx, ny, direction) of removable_walls as a wall of the
\* graph: the (row, column) cell and its East or South bit
WallOf(wl) == <<<<wl[2], wl[1]>>, IF wl[5] = EAST THEN 1 ELSE 2>>

\* the interior walls standing in g
StandingWalls(g, w, h) == InteriorWalls(w, h) \ OpenEdges(g, w, h)

\* C11: at the loop carving step, the candidate list holds every standing
\* interior wall exactly once and nothing else, and the step opens exactly
\* floor(0.05 * candidate_count) distinct walls, all of them from the list.
C11_LoopCarving ==
    [][(pc = "loops" /\ pc' = "generated") =>
        LET walls == removable_walls(grid)
            listed == {WallOf(walls[k]) : k \in 1..Len(walls)}
            opened == OpenEdges(grid', width, height)
                        \ OpenEdges(grid, width, height)
        IN /\ Cardinality(listed) = Len(walls)
           /\ listed = StandingWalls(grid, width, height)
           /\ \A k \in 1..Len(walls) :
                <<walls[k][4], walls[k][3]>>
                    = NeighbourVia(WallOf(walls[k])[1], WallOf(walls[k])[2])
           /\ opened \subseteq listed
           /\ Cardinality(opened) = Len(walls) \div 20
           /\ OpenEdges(grid, width, height)
                \subseteq OpenEdges(grid', width, height)]_vars

\* loop carving ended having opened a wall
C11_Witness ==
    /\ algorithm = "flat"
    /\ ~perfect
    /\ pc = "generated"
    /\ Cardinality(OpenEdges(grid, width, height)) >= width * height

\* C12 as stated: an imperfect run ends with more than W*H-1 open edges.
C12_MoreEdgesThanTree ==
    (algorithm = "flat" /\ ~perfect /\ pc = "generated") =>
        Cardinality(OpenEdges(grid, width, height)) > width * height - 1

\* C12 amended: an imperfect run ends with W*H-1 + floor(0.05*R) open
\* edges, R = (W-1)*(H-1) being the interior walls the tree leaves
\* standing; that is more than W*H-1 exactly when R >= 20.
C12_EdgesAfterLoops ==
    (algorithm = "flat" /\ ~perfect /\ pc = "generated") =>
        LET R == Cardinality(InteriorWalls(width, height))
                    - (width * height - 1)
            n == Cardinality(OpenEdges(grid, width, height))
        IN /\ R = (width - 1) * (height - 1)
           /\ n = width * height - 1 + (R \div 20)
           /\ (n > width * height - 1) <=> (R >= 20)
           /\ Connected(grid, width, height)

\* an imperfect run on a grid with at least 20 walls left by the tree ended
C12_Witness ==
    /\ algorithm = "flat"
    /\ ~perfect
    /\ pc = "written"
    /\ (width - 1) * (height - 1) >= 20
    /\ Cardinality(OpenEdges(grid, width, height)) = width * height

\* C13: dfs() and hak() touch no cell outside the grid and never abort
\* with an out-of-bounds failure: every cell they mark visited is a cell of
\* the grid and generation never ends in an error.
C13_CarvingInBounds ==
    (algorithm \in {"dfs", "hak"}) =>
        /\ visited \subseteq GridCells(width, height)
        /\ ~(pc = "error" /\ file = << >>)

\* C14: a configuration with width < 1, height < 1, entry or exit outside
\* [0,W)x[0,H), or entry equal to exit is rejected when it is loaded: no
\* grid is allocated, no cell is visited and no file is written.
C14_InvalidRejected ==
    LET Inside(c) == 0 <= c[1] /\ c[1] < width /\ 0 <= c[2] /\ c[2] < height
        invalid == \/ width < 1
                   \/ height < 1
                   \/ ~Inside(entry)
                   \/ ~Inside(exit)
                   \/ entry = exit
    IN (invalid /\ pc # "start") =>
          /\ pc = "rejected"
          /\ grid = NoGrid
          /\ visited = {}
          /\ file = << >>

\* read() rejected a configuration of width 0 whose other integers are
\* not negative
C14_Witness ==
    /\ algorithm = "dfs"
    /\ pc = "rejected"
    /\ width = 0
    /\ height >= 1
    /\ entry = <<0, 0>>
    /\ exit = <<0, 1>>

\* the row lines of a maze file: the lines before its first blank line;
\* and its coordinate lines: the lines after it
RowLines(lines) ==
    LET blanks == {k \in 1..Len(lines) : lines[k] = << >>}
    IN IF blanks = {} THEN lines ELSE SubSeq(lines, 1, Min(blanks) - 1)

CoordLines(lines) ==
    LET blanks == {k \in 1..Len(lines) : lines[k] = << >>}
    IN IF blanks = {} THEN << >>
       ELSE SubSeq(lines, Min(blanks) + 1, Len(lines))

Ragged(lines) ==
    \E r1, r2 \in 1..Len(RowLines(lines)) :
        Len(RowLines(lines)[r1]) # Len(RowLines(lines)[r2])

\* C15: loading a file whose rows do not all have the same width fails:
\* the PathFinder never holds a ragged grid and the path search never
\* fails because of one.
C15_RaggedRejected ==
    (Ragged(file) /\ pc # "written") =>
        /\ pc = "error"
        /\ pf = NoPathFinder

\* C16: loading a file that lacks the entry line or the exit line fails: it
\* is never loaded and never answered as a maze without a path.
C16_MissingCoordsRejected ==
    (Len(CoordLines(file)) < 2 /\ pc # "written") =>
        /\ pc = "error"
        /\ pf = NoPathFinder

\* the file content the format asks for: H rows of W uppercase hex digits,
\* a blank line, then the entry and the exit as "X, Y"
FormatLines(g, w, h, en, ex) ==
    [r \in 1..h |-> [c \in 1..w |-> HexDigits[g[r][c] + 1]]]
    \o << << >> >>
    \o << DecStr(en[1]) \o <<",", " ">> \o DecStr(en[2]),
          DecStr(ex[1]) \o <<",", " ">> \o DecStr(ex[2]) >>

\* C17: whichever serializer wrote the file, its content is the one the
\* format asks for, and the same as each other serializer emits for this
\* grid, entry and exit.
C17_SerializersAgree ==
    (pc = "written") =>
        /\ file = FormatLines(grid, width, height, entry, exit)
        /\ file = WriteLines(grid, entry, exit)
        /\ file = FlatSaveLines(grid, width, height, entry, exit)
        /\ file = SaveLines(grid, entry, exit)

\* C18: on a loaded grid, the cells the pathfinder steps to from a cell are
\* exactly the grid-adjacent cells with neither facing wall bit set, so no
\* path crosses a wall of which only one of the two bits is clear.
C18_EdgeIffBothClear ==
    (pc \in {"loaded", "solved"}) =>
        \A x \in 0..(pf.width - 1) : \A y \in 0..(pf.height - 1) :
            LET nb == get_neighbors(pf, <<x, y>>)
            IN \A b \in GridCells(pf.width, pf.height) :
                 (\E k \in 1..Len(nb) : RC(nb[k][1]) = b)
                 <=> OpenEdge(pf.grid, pf.width, pf.height, <<y, x>>, b)

\* C19: reset() after a run yields a grid of the same dimensions with every
\* mask 15, the grid of configuration time, and the run made after it ends
\* on the grid the run on the fresh grid ended on.
C19_ResetRestoresGrid ==
    (run > 1) =>
        /\ (pc = "config") =>
              /\ Len(grid) = height
              /\ \A r \in 1..height :
                    /\ Len(grid[r]) = width
                    /\ \A c \in 1..width : grid[r][c] = 15
              /\ grid = FullGrid(width, height)
        /\ (pc = "generated" /\ Len(carved) = Len(first.carved)) =>
              grid = first.grid

\* reset() was called on a grid with at least two open walls, and the run
\* after it ended
C19_Witness ==
    /\ run > 1
    /\ pc = "generated"
    /\ Cardinality(OpenEdges(first.grid, width, height)) >= 2
    /\ grid = first.grid

\* the grid a run yields from a fresh fully-walled grid when it opens the
\* walls of the log c, each between (row, column) cells <<x, y>>, <<nx, ny>>
RECURSIVE FreshResult(_, _)
FreshResult(g, c) ==
    IF c = << >> THEN g
    ELSE LET wl == Head(c)
             i == CHOOSE k \in 0..3 :
                    NeighbourVia(<<wl[1], wl[2]>>, k) = <<wl[3], wl[4]>>
             g1 == [g EXCEPT ![wl[1] + 1][wl[2] + 1] = ClearBit(@, i)]
             g2 == [g1 EXCEPT ![wl[3] + 1][wl[4] + 1] =
                                  ClearBit(@, FacingBit(i))]
         IN FreshResult(g2, Tail(c))

\* C20: whatever generate() calls were made before on this MazeGenerator,
\* when a run ends the grid is the one its own carving yields from a fresh
\* fully-walled grid: no wall opened by an earlier run is open in it
\* unless this run opened it.
C20_NoStateAcrossRuns ==
    (pc = "generated") =>
        grid = FreshResult(FullGrid(width, height), carved)

\* following the characters of p from pos in the maze f stays in the grid,
\* crosses only open edges and ends on `goal`
RECURSIVE WalkIn(_, _, _, _)
WalkIn(f, pos, p, goal) ==
    IF p = << >> THEN pos = goal
    ELSE LET nxt == <<pos[1] + CharStep(Head(p))[1],
                      pos[2] + CharStep(Head(p))[2]>>
         IN /\ Head(p) \in {"N", "E", "S", "W"}
            /\ RC(pos) \in GridCells(f.width, f.height)
            /\ RC(nxt) \in GridCells(f.width, f.height)
            /\ OpenEdge(f.grid, f.width, f.height, RC(pos), RC(nxt))
            /\ WalkIn(f, nxt, Tail(p), goal)

\* the lines of the file after the grid rows, the blank line, the entry and
\* the exit
PathLines(lines) ==
    LET f == LoadMaze(lines)
    IN SubSeq(lines, f.height + 4, Len(lines))

\* C21: after any sequence of maze writes, PathFinder constructions and
\* save_path calls on one output file, every path line in the file is a
\* route from the entry to the exit in the grid that the file holds.
C21_PathLinesCurrent ==
    (file # << >>) =>
        LET f == LoadMaze(file)
            ps == PathLines(file)
        IN \A k \in 1..Len(ps) : WalkIn(f, f.entry, ps[k], f.exit)

\* C22: loop carving runs if and only if the perfection flag is false: a
\* generation run ends through the loop-carving step exactly when perfect is
\* false, whichever generator runs.
C22_LoopsIffImperfect ==
    [][(pc # "generated" /\ pc' = "generated")
          => ((pc = "loops") <=> ~perfect)]_vars

\* the number of characters c in the string p
Count(p, c) == Cardinality({k \in 1..Len(p) : p[k] = c})

\* C23: on the 3x3 grid with every wall bit cleared, entry (0,0) and exit
\* (2,2), find_path returns a path of length 4 made of two E and two S: the
\* one that the N, E, S, W enumeration order fixes, EESS.
C23_OpenGridPath ==
    (/\ pc = "solved"
     /\ pf.width = 3 /\ pf.height = 3
     /\ pf.grid = OpenGrid(3, 3, FALSE)
     /\ pf.entry = <<0, 0>> /\ pf.exit = <<2, 2>>)
    => /\ path # None
       /\ Len(path) = 4
       /\ Count(path, "E") = 2 /\ Count(path, "S") = 2
       /\ path = <<"E", "E", "S", "S">>

C23_Witness ==
    /\ pc = "solved"
    /\ pf.width = 3 /\ pf.height = 3
    /\ pf.grid = OpenGrid(3, 3, FALSE)
    /\ pf.entry = <<0, 0>> /\ pf.exit = <<2, 2>>
    /\ path = <<"E", "E", "S", "S">>
    /\ file[Len(file)] = path

\* C24: for every valid configuration, the first cell dfs() marks visited is
\* the grid cell at column entry.x and row entry.y, the cell the pathfinder
\* and the configuration check treat as the entry. A member (a, b) of
\* dfs's visited set is the cell grid[a][b]: row a, column b.
C24_DfsStartsAtEntry ==
    (algorithm = "dfs" /\ pc = "dfs" /\ Cardinality(visited) = 1)
    => visited = {RC(entry)}

\* the cells of the grid as the generator at work indexes its visited set:
\* (row, column) for hak, (x, y) = (column, row) for HaKMazeGenerator
VisitCells ==
    IF algorithm = "flat" THEN (0..(width - 1)) \X (0..(height - 1))
    ELSE GridCells(width, height)

\* C25: for every valid configuration, when the hunt phase reports "not
\* found" and the kill/hunt loop ends, every cell of the grid is visited
\* and no cell is left fully walled.
C25_HuntEndsWhenAllVisited ==
    (algorithm \in {"hak", "flat"} /\ pc \in {"loops", "generated"})
    => /\ VisitCells \subseteq visited
       /\ \A a \in GridCells(width, height) : grid[a[1] + 1][a[2] + 1] # FULL

\* the visited cells as (row, column) cells of the grid: hak keeps
\* (row, column), HaKMazeGenerator keeps cells with x the column, y the row
VisitedRC ==
    IF algorithm = "flat" THEN {RC(v) : v \in visited} ELSE visited

\* a and b are grid neighbours
Adjacent(a, b) == \E i \in 0..3 : b = NeighbourVia(a, i)

\* the unvisited grid cells with a visited grid neighbour
HuntCandidates ==
    { a \in GridCells(width, height) \ VisitedRC :
        \E b \in VisitedRC \cap GridCells(width, height) : Adjacent(a, b) }

\* rows top to bottom, columns left to right
RowMajorBefore(a, b) == a[1] < b[1] \/ (a[1] = b[1] /\ a[2] <= b[2])

\* g with the wall between a and its neighbour through bit i opened
OpenBetween(g, a, i) ==
    LET b == NeighbourVia(a, i)
    IN [r \in 1..Len(g) |-> [c \in 1..Len(g[r]) |->
          IF <<r - 1, c - 1>> = a THEN ClearBit(g[r][c], i)
          ELSE IF <<r - 1, c - 1>> = b THEN ClearBit(g[r][c], FacingBit(i))
          ELSE g[r][c]]]

\* a hunt that found a cell
HuntFound ==
    \/ pc = "hunt" /\ pc' = "kill"
    \/ pc = "fhunt" /\ visited' # visited

\* C26: each successful hunt selects the first cell in row-major order
\* that is unvisited and has a visited neighbour, opens a wall only toward
\* one of its visited neighbours, and marks exactly that cell visited.
C26_HuntSelection ==
    [][HuntFound =>
         \E c \in HuntCandidates :
            /\ \A o \in HuntCandidates : RowMajorBefore(c, o)
            /\ VisitedRC' = VisitedRC \cup {c}
            /\ \E i \in 0..3 :
                  /\ NeighbourVia(c, i) \in
                         VisitedRC \cap GridCells(width, height)
                  /\ grid' = OpenBetween(grid, c, i)]_vars

\* hak on 3x2 from (0,0): the walk (0,0), (0,1), (1,1), (1,0) is stuck, and
\* the hunt has just joined (0,2), the first of the candidates (0,2) and
\* (1,2), to its visited neighbour (0,1)
C26_Witness ==
    /\ algorithm = "hak" /\ pc = "kill"
    /\ width = 3 /\ height = 2
    /\ visited = {<<0, 0>>, <<0, 1>>, <<1, 1>>, <<1, 0>>, <<0, 2>>}
    /\ cur = <<0, 2>>
    /\ grid = << <<13, 1, 7>>, <<13, 6, 15>> >>

\* the outcome of a kill phase on (x, y) cells, told in (row, column) cells
InRowColumn(res) ==
    [error |-> res.error,
     grid |-> res.grid,
     visited |-> {<<v[2], v[1]>> : v \in res.visited},
     cell |-> <<res.cell[2], res.cell[1]>>,
     rng |-> res.rng,
     opened |-> [k \in 1..Len(res.opened) |->
                    <<res.opened[k][2], res.opened[k][1],
                      res.opened[k][4], res.opened[k][3]>>]]

\* C27: the kill phase written as a loop (hak.kill) and the recursive one
\* (HaKMazeGenerator._kill), started from the same grid cell, visited set
\* and grid and given the same random choices, open the same walls in the
\* same order, mark the same cells visited and return the same final cell.
\* On grids with fewer cells than the interpreter allows nested calls the
\* two outcomes are computed and compared; hak.kill is a loop that always
\* returns a cell, so a kill phase of _kill that ends in RecursionError
\* has no counterpart in hak.kill.
C27_KillEquivalent ==
    /\ (/\ algorithm = "hak" /\ pc = "kill" /\ rng.known
        /\ InGrid(width, height, cur[1], cur[2])
        /\ width * height < RecursionLimit)
       => KillLoop(grid, visited, cur[1], cur[2], rng, << >>)
          = InRowColumn(KillRecursive(grid,
                                      {<<v[2], v[1]>> : v \in visited},
                                      cur[2], cur[1], rng, << >>))
    /\ (algorithm = "flat" /\ stack # << >>) => pc # "error"

\* C28: two HaKMazeGenerator instances built from the same configuration
\* with the same seed end with identical grids, however their
\* constructions and generate() calls are interleaved with each other and
\* with those of other instances sharing the global random generator.
C28_InstancesAgree ==
    (algorithm = "flat" /\ run = 2 /\ pc = "generated")
    => grid = first.grid

\* C29: save_path appends the found path as one new final line and leaves
\* every earlier line of the file unchanged; when find_path reports no
\* path, save_path leaves the file entirely unchanged.
C29_SavePathFrame ==
    [][(pc = "loaded" /\ pc' # "loaded") =>
         /\ \A k \in 1..Len(file) : k <= Len(file') /\ file'[k] = file[k]
         /\ IF find_path(pf).value # None
            THEN /\ Len(file') = Len(file) + 1
                 /\ file'[Len(file')] = find_path(pf).value
            ELSE file' = file]_vars

\* a path of at least two steps was found and is the one line after the
\* rows, the blank line, the entry and the exit as they were written
C29_Witness ==
    /\ pc = "solved"
    /\ path # None /\ Len(path) >= 2
    /\ Len(file) = height + 4
    /\ SubSeq(file, 1, height + 3) = WriteLines(grid, entry, exit)
    /\ file[height + 4] = path

C31_DfsTerminates ==
    (algorithm = "dfs") =>
        /\ iters <= 2 * width * height
        /\ pc = "dfs" => stack # << >>
        /\ pc = "generated" => stack = << >>

\* a dfs that returned after visiting n >= 3 cells: n - 1 pushes, n pops
C31_Witness ==
    /\ algorithm = "dfs"
    /\ pc = "generated"
    /\ stack = << >>
    /\ Cardinality(visited) >= 3
    /\ iters = 2 * Cardinality(visited) - 1

\* C32: the Hunt-and-Kill outer loop terminates under every outcome of the
\* random choices: every step of kill and every kill/hunt round that does
\* not end the loop marks a new cell visited, and hak() and
\* HaKMazeGenerator.generate() have made at most W * H rounds in every
\* state.
C32_HakTerminates ==
    [][(algorithm \in {"hak", "flat"}) =>
        /\ iters' <= width * height
        /\ (pc \in {"kill", "fkill", "hunt", "fhunt"}
            /\ pc' \in {"kill", "fkill"})
           => (visited \subseteq visited' /\ visited' # visited)]_vars

\* a run of hak that needed a hunt to reach every cell
C32_Witness ==
    /\ algorithm = "hak"
    /\ pc = "generated"
    /\ iters >= 2
    /\ GridCells(width, height) \subseteq visited

\* the two cells of an open edge
Ends(e) == {e[1], NeighbourVia(e[1], e[2])}

\* the open edges of g form a tree over the cells vs
TreeOver(g, vs) ==
    /\ Cardinality(OpenEdges(g, width, height)) = Cardinality(vs) - 1
    /\ \A e \in OpenEdges(g, width, height) : Ends(e) \subseteq vs
    /\ \A a \in vs : vs \subseteq Component(g, width, height, a)

\* C33: at every step of dfs() and hak() on a fresh grid the open edges
\* are a tree over the visited cells (as many edges as visited cells less
\* one, every edge between two visited cells, all visited cells joined),
\* and a step that opens a wall opens exactly one edge, between a cell
\* visited before the step and a cell not visited before it.
C33_CarvedIsTree ==
    [][(algorithm \in {"dfs", "hak"}
        /\ pc' \in {"dfs", "kill", "hunt", "generated"}) =>
        /\ TreeOver(grid', visited')
        /\ grid' # grid =>
            \E e \in OpenEdges(grid', width, height) :
                /\ OpenEdges(grid', width, height)
                       = OpenEdges(grid, width, height) \cup {e}
                /\ e \notin OpenEdges(grid, width, height)
                /\ Cardinality(Ends(e) \cap visited) = 1]_vars

\* hak in the middle of a run: three cells carved, others still unvisited
C33_Witness ==
    /\ algorithm = "hak"
    /\ pc \in {"kill", "hunt"}
    /\ Cardinality(visited) >= 3
    /\ Cardinality(OpenEdges(grid, width, height)) = Cardinality(visited) - 1
    /\ ~(GridCells(width, height) \subseteq visited)

\* every wall bit of g that faces outside the grid is set
BorderClosed(g) ==
    \A a \in GridCells(width, height) :
        LET v == g[a[1] + 1][a[2] + 1]
        IN /\ a[1] = 0 => HasBit(v, 0)
           /\ a[2] = width - 1 => HasBit(v, 1)
           /\ a[1] = height - 1 => HasBit(v, 2)
           /\ a[2] = 0 => HasBit(v, 3)

C35_AtMostOnePathLine ==
    (file # << >>) => Len(PathLines(file)) <= 1

\* C36: MazeGenerator.read() is all-or-nothing: whenever it raises
\* (no file, missing key, non-boolean PERFECT, negative value,
\* out-of-bounds entry or exit, entry equal to exit), the generator's grid,
\* width, height, entry, exit, perfect, seed and algorithm are what they
\* were before the call.
C36_ReadAllOrNothing ==
    [][(pc' = "rejected") =>
        UNCHANGED <<grid, width, height, entry, exit, perfect, seed,
                    algorithm>>]_vars

\* a read() that raised on a generator holding a carved maze
C36_Witness ==
    /\ pc = "rejected"
    /\ grid # FullGrid(width, height)
    /\ ValidConfig(width, height, entry, exit)

\* C37: throughout a generation run every cell's mask stays within 0..15
\* and serializes to exactly one hex digit, and wall bits are only ever
\* cleared: a bit clear before a step is clear after it, unless the step
\* is a reset or a read that installs a new fully-walled grid.
C37_MasksOnlyLoseBits ==
    [][(grid' # << >> /\ ~(pc' = "config" /\ grid' = FullGrid(width', height')))
       => \A a \in GridCells(width', height') :
            LET v == grid'[a[1] + 1][a[2] + 1]
            IN /\ v \in 0..FULL
               /\ Len(HexStr(v)) = 1
               /\ grid # << >> =>
                    \A i \in 0..3 :
                        ~HasBit(grid[a[1] + 1][a[2] + 1], i) => ~HasBit(v, i)]_vars

\* a second run on the same generator that carved over the walls opened
\* by the first: more open edges than a tree has
C37_Witness ==
    /\ run = 2
    /\ pc = "generated"
    /\ Cardinality(OpenEdges(grid, width, height)) > width * height - 1

====
